---- MODULE Spec2Model ----
(***************************************************************************)
(* A model of ipld-block-builder: the block builder (builder.rs, lib.rs),  *)
(* its batches (batch.rs), the typed cache (cache.rs) and the store they   *)
(* talk to.  Every store call is one atomic step of the calling task (it   *)
(* is an await point of the code); the code between two store calls runs   *)
(* in the step of the call that precedes it.                               *)
(***************************************************************************)
EXTENDS Integers, Sequences, FiniteSets, TLC

\* ------------------------------------------------------------------ bounds

\* Longest batch a task builds.
MaxBatch == 3
\* Longest batch a task builds when two tasks commit concurrently.
MaxConcBatch == 2
\* Operations started in one behaviour (all tasks together).
MaxOps == 2
\* Capacity of the typed cache (the `size` given to IpldCache::new).
CacheSize == 2
\* Reads started in one behaviour (all tasks together).
MaxReads == 2
\* Longest path a caller resolves, in segments.
MaxPath == 4
\* Longest plaintext handed to encrypt, in bytes.
MaxPlain == 2
\* Nonces the random generator can come up with.
MaxNonce == 2

\* ------------------------------------------------------------ the universe

Tasks == {1, 2}

\* Value v links to the blocks of the values LinkTable[v]: 1 and 3 are
\* leaves, 2 is a parent of 1, 4 is a parent of 2 and 3.  Links follow
\* content addresses, so a value only links to values built before it.
LinkTable == << {}, {1}, {}, {2, 3} >>

Values == DOMAIN LinkTable

\* A value the codec cannot serialize.
BadValue == Len(LinkTable) + 1

Inputs == Values \cup {BadValue}

\* Codec tags of the content addresses (multicodec table).
DagCborCode == 113
RawCode == 85

\* crypto.rs: keys shorter than this are rejected.
MinKeyLen == 16

\* crypto.rs NONCE_LEN and TAG_LEN, counted in units: the 24 bytes of the
\* nonce are one element of a buffer and the 16 bytes of the tag another.
NonceLen == 1
TagLen == 1

Public == "Public"
Private == "Private"

NoKey == [some |-> FALSE, bytes |-> << >>]

KeyOfLen(n) == [some |-> TRUE, bytes |-> [i \in 1..n |-> i]]

\* The builders a program can construct: new(store), and new_private(store,
\* key) with a key the crypto engine accepts or one it rejects.
Builders ==
    { [visibility |-> Public, key |-> NoKey],
      [visibility |-> Private, key |-> KeyOfLen(MinKeyLen)],
      [visibility |-> Private, key |-> KeyOfLen(MinKeyLen - 1)] }

\* ------------------------------------------------------- codec and crypto

\* C::encode: the serialized bytes of a value (a one-item CBOR-like frame).
Serialize(v) == << DagCborCode, v >>

\* The value a plain block's bytes decode to.
Deserialize(data) == data[2]

\* The multihash of a byte string: length-prefixed, collision free.
Digest(data) == << Len(data) >> \o data

MkCid(codec, data) == [codec |-> codec, hash |-> Digest(data)]

NoCid == [codec |-> 0, hash |-> << >>]

RECURSIVE SumSeq(_)
SumSeq(s) == IF s = << >> THEN 0 ELSE Head(s) + SumSeq(Tail(s))

\* One keystream byte of the keyed duplex state at position i.
KeyStream(k, nonce, i) == (SumSeq(k) + nonce + i) % 256

\* The codec tags Codec::try_from accepts: raw, dag-pb, dag-cbor, dag-json.
KnownCodecs == {RawCode, 112, DagCborCode, 297}

\* unsigned_varint::encode::u64: seven bits a byte, low bits first, the top
\* bit set on every byte but the last.
RECURSIVE VarintEncode(_)
VarintEncode(n) ==
    IF n < 128 THEN << n >>
    ELSE << 128 + (n % 128) >> \o VarintEncode(n \div 128)

\* unsigned_varint::decode::u64: the number and the bytes behind it; an
\* error when the bytes end inside the number.  A number of 2^20 or more,
\* far above every codec tag, is not computed any further.
RECURSIVE VarintDecode(_)
VarintDecode(bytes) ==
    IF bytes = << >>
    THEN [ok |-> FALSE, value |-> 0, rest |-> << >>]
    ELSE IF Head(bytes) < 128
         THEN [ok |-> TRUE, value |-> Head(bytes), rest |-> Tail(bytes)]
         ELSE LET r == VarintDecode(Tail(bytes))
              IN  [ok |-> r.ok,
                   value |-> IF r.value >= 2 ^ 20 THEN r.value
                             ELSE (Head(bytes) - 128) + 128 * r.value,
                   rest |-> r.rest]

\* send_mac / recv_mac: the tag is a function of all the duplex state has
\* absorbed, the key, the nonce and the plaintext; different inputs give
\* different tags.
Mac(k, nonce, inner) == << SumSeq(k), nonce, inner >>

\* An engine that takes a key of any length.
KeyTooShortNever(k) == FALSE

\* `if key.len() < 16`, the first statement of encrypt and of decrypt.
KeyTooShort(k) == Len(k) < MinKeyLen

\* A decrypt that also turns away a buffer of just a nonce and a tag.
CipherTooShortStrict(buf) == Len(buf) <= TagLen + NonceLen

\* `if buf.len() < TAG_LEN + NONCE_LEN`, the second statement of decrypt.
CipherTooShort(buf) == Len(buf) < TagLen + NonceLen

\* crypto::encrypt: nonce || enc(varint(codec) || data) || mac.  The nonce
\* and the tag are one unit each.
Encrypt(k, codec, data, nonce) ==
    IF KeyTooShort(k)
    THEN [ok |-> FALSE, err |-> "KeyTooShort", bytes |-> << >>]
    ELSE LET inner == VarintEncode(codec) \o data
             ct == [i \in 1..Len(inner) |->
                       (inner[i] + KeyStream(k, nonce, i)) % 256]
         IN  [ok |-> TRUE, err |-> "",
              bytes |-> << nonce >> \o ct \o << Mac(k, nonce, inner) >>]

\* A decrypt that hands back the decrypted segment with the codec tag still
\* in front of the data.
DecryptWholeBody(k, buf) ==
    LET fail(e) == [ok |-> FALSE, err |-> e, codec |-> 0, data |-> << >>]
    IN  IF KeyTooShort(k) THEN fail("KeyTooShort")
        ELSE IF CipherTooShort(buf) THEN fail("CipherTooShort")
        ELSE LET nonce == buf[1]
                 ct == SubSeq(buf, NonceLen + 1, Len(buf) - TagLen)
                 inner == [i \in 1..Len(ct) |->
                              (ct[i] + 256 - KeyStream(k, nonce, i)) % 256]
                 vi == VarintDecode(inner)
             IN  IF ~vi.ok \/ vi.value \notin KnownCodecs THEN fail("Codec")
                 ELSE IF buf[Len(buf)] # Mac(k, nonce, inner) THEN fail("Integrity")
                 ELSE [ok |-> TRUE, err |-> "", codec |-> vi.value, data |-> inner]

\* A decrypt that hands out what it decrypted without looking at the tag.
DecryptUnverified(k, buf) ==
    LET fail(e) == [ok |-> FALSE, err |-> e, codec |-> 0, data |-> << >>]
    IN  IF KeyTooShort(k) THEN fail("KeyTooShort")
        ELSE IF CipherTooShort(buf) THEN fail("CipherTooShort")
        ELSE LET nonce == buf[1]
                 ct == SubSeq(buf, NonceLen + 1, Len(buf) - TagLen)
                 inner == [i \in 1..Len(ct) |->
                              (ct[i] + 256 - KeyStream(k, nonce, i)) % 256]
                 vi == VarintDecode(inner)
             IN  IF ~vi.ok \/ vi.value \notin KnownCodecs THEN fail("Codec")
                 ELSE [ok |-> TRUE, err |-> "", codec |-> vi.value, data |-> vi.rest]

\* crypto::decrypt: the checks in the order of the code: key length, buffer
\* length, then the codec tag of the decrypted bytes, and the tag last.
Decrypt(k, buf) ==
    LET fail(e) == [ok |-> FALSE, err |-> e, codec |-> 0, data |-> << >>]
    IN  IF KeyTooShort(k) THEN fail("KeyTooShort")
        ELSE IF CipherTooShort(buf) THEN fail("CipherTooShort")
        ELSE LET nonce == buf[1]
                 ct == SubSeq(buf, NonceLen + 1, Len(buf) - TagLen)
                 inner == [i \in 1..Len(ct) |->
                              (ct[i] + 256 - KeyStream(k, nonce, i)) % 256]
                 vi == VarintDecode(inner)
             IN  IF ~vi.ok THEN fail("Codec")
                 ELSE IF vi.value \notin KnownCodecs THEN fail("Codec")
                 ELSE IF buf[Len(buf)] # Mac(k, nonce, inner) THEN fail("Integrity")
                 ELSE [ok |-> TRUE, err |-> "", codec |-> vi.value, data |-> vi.rest]

NoBlock == [cid |-> NoCid, data |-> << >>]

\* A batch that encodes every value plainly, key or not.
BuildBlockPlain(k, v, nonce) ==
    IF v = BadValue
    THEN [ok |-> FALSE, err |-> "CodecError", block |-> NoBlock]
    ELSE [ok |-> TRUE, err |-> "",
          block |-> [cid |-> MkCid(DagCborCode, Serialize(v)),
                     data |-> Serialize(v)]]

\* GenericBatch::insert, the part that builds the block: plain encoding
\* without a key, encode + encrypt + raw encoding with one.  Every failure
\* is reported as a CodecError.
BuildBlock(k, v, nonce) ==
    IF v = BadValue
    THEN [ok |-> FALSE, err |-> "CodecError", block |-> NoBlock]
    ELSE IF k.some
         THEN LET ct == Encrypt(k.bytes, DagCborCode, Serialize(v), nonce)
              IN  IF ct.ok
                  THEN [ok |-> TRUE, err |-> "",
                        block |-> [cid |-> MkCid(RawCode, ct.bytes),
                                   data |-> ct.bytes]]
                  ELSE [ok |-> FALSE, err |-> "CodecError", block |-> NoBlock]
         ELSE [ok |-> TRUE, err |-> "",
               block |-> [cid |-> MkCid(DagCborCode, Serialize(v)),
                          data |-> Serialize(v)]]

\* libipld raw_decode::<C, D>(codec, data): the codec must be the builder's,
\* and the bytes one frame of it.
RawDecode(codec, data) ==
    IF codec # DagCborCode
    THEN [ok |-> FALSE, err |-> "UnsupportedCodec", value |-> 0]
    ELSE IF Len(data) # 2 \/ data[1] # DagCborCode
         THEN [ok |-> FALSE, err |-> "CodecError", value |-> 0]
         ELSE [ok |-> TRUE, err |-> "", value |-> Deserialize(data)]

\* A get that decodes every block as a plain one.
DecodeBlockPlain(k, cid, data) == RawDecode(cid.codec, data)

\* GenericBlockBuilder::get behind store.get: with a key the block must be
\* raw, is decrypted and decoded under the inner codec tag; without one it
\* is decoded under the cid's codec tag.
DecodeBlock(k, cid, data) ==
    IF k.some
    THEN IF cid.codec # RawCode
         THEN [ok |-> FALSE, err |-> "UnsupportedCodec", value |-> 0]
         ELSE LET pt == Decrypt(k.bytes, data)
              IN  IF pt.ok THEN RawDecode(pt.codec, pt.data)
                  ELSE [ok |-> FALSE, err |-> "CodecError", value |-> 0]
    ELSE RawDecode(cid.codec, data)

\* The content address of the plain block of value v.
PlainCid(v) == MkCid(DagCborCode, Serialize(v))

\* The links the store finds in a block: those of the decoded value for a
\* dag-cbor block, none for raw bytes.
BlockLinks(cid, data) ==
    IF cid.codec = DagCborCode
    THEN { PlainCid(w) : w \in LinkTable[Deserialize(data)] }
    ELSE {}

\* ------------------------------------------------------------------ store

\* Store::insert: the block is stored and pinned.
StoreInsert(st, cid, data, vis) ==
    [c \in DOMAIN st \cup {cid} |->
        IF c \in DOMAIN st THEN st[c] ELSE [data |-> data, visibility |-> vis]]

PinsAfterInsert(ps, cid) == ps \cup {cid}

\* Store::unpin: the block is marked collectible.
PinsAfterUnpin(ps, cid) == ps \ {cid}

RECURSIVE Reach(_, _, _)
Reach(st, frontier, seen) ==
    IF frontier = {} THEN seen
    ELSE LET next == UNION { BlockLinks(c, st[c].data) : c \in frontier }
             new == (next \cap DOMAIN st) \ seen
         IN  Reach(st, new, seen \cup new)

\* The blocks the store retains: the pinned ones and all they reach.
Live(st, ps) == Reach(st, ps \cap DOMAIN st, ps \cap DOMAIN st)

\* ------------------------------------------------------------------ state

VARIABLES
    builder,     \* the builder's visibility and key, fixed at construction
    store,       \* the store's blocks: cid -> [data, visibility]
    pins,        \* the store's pinned cids
    cache,       \* the typed cache, most recently used first
    pc,          \* where each task is
    op,          \* the operation each task runs
    blocks,      \* batch.blocks of each task's batch
    pairs,       \* CacheBatch.cache of each task's batch
    ret,         \* the last Ok(cid) a Batch.insert on the task's batch returned
    idx,         \* the position of the batch's or the path's iterator
    phase,       \* the store call the commit loop makes next
    last_cid,    \* insert_batch's last_cid
    result,      \* what the task's operation returned
    calls,       \* the store calls the task's operation has issued
    arg,         \* the value and nonce of the task's insert(value)
    rng,         \* nonces the random generator has drawn so far
    gc_ran,      \* whether the collector ran while the task was committing
    nops,        \* operations started so far
    size,        \* the capacity given to IpldCache::new
    req,         \* the cid each task's get / get_path asked for
    got,         \* the value each task's get / get_path returned
    prev,        \* what each task's previous operation was and returned
    path,        \* get_path: the segments of the path
    node,        \* get_path: the loop's `ipld`, the value it stands on
    crypt,       \* a key, a plaintext and the buffer encrypt / decrypt work on
    used,        \* the cids the cache was asked for or given, latest first
    nreads,      \* reads (get, cache get, get_path) started so far
    lock         \* the task that holds the guard of the cache's mutex, or 0

\* The locals of get, cache get and get_path.
getvars == << req, got, prev, path, node >>

vars == << builder, store, pins, cache, pc, op, blocks, pairs, ret, idx,
           phase, last_cid, result, calls, arg, rng, gc_ran, nops, size,
           getvars, crypt, used, nreads, lock >>

\* ------------------------------------------------------------------ cache

\* SizedCache::cache_set on a most-recently-used-first list: an existing key
\* is updated and moved to the front, a new key evicts the last entry of a
\* full cache.
SelectSeq2(s, cid) == SelectSeq(s, LAMBDA e : e.cid # cid)

CacheSet(c, cid, value) ==
    LET rest == SelectSeq2(c, cid)
        kept == IF Len(rest) >= size
                THEN SubSeq(rest, 1, size - 1)
                ELSE rest
    IN  << [cid |-> cid, value |-> value] >> \o kept

\* A cache that writes the pairs of a batch last pair first.
RECURSIVE CacheSetAllReversed(_, _)
CacheSetAllReversed(c, ps) ==
    IF ps = << >> THEN c
    ELSE CacheSet(CacheSetAllReversed(c, Tail(ps)), Head(ps).cid, Head(ps).value)

\* A cache that writes only the last pair of a batch.
CacheSetLast(c, ps) ==
    IF ps = << >> THEN c
    ELSE CacheSet(c, ps[Len(ps)].cid, ps[Len(ps)].value)

\* A cache that puts the pairs of a batch in front of its entries as they
\* come, whatever it holds already.
CacheSetAllAppend(c, ps) ==
    [i \in 1..Len(ps) |-> ps[Len(ps) + 1 - i]] \o c

\* Cache::insert_batch: for (cid, value) in batch.cache { cache_set }.
RECURSIVE CacheSetAll(_, _)
CacheSetAll(c, ps) ==
    IF ps = << >> THEN c
    ELSE CacheSetAll(CacheSet(c, Head(ps).cid, Head(ps).value), Tail(ps))

\* A use of cid by a cache hit or a cache write: cid becomes the latest.
Use(u, cid) == << cid >> \o SelectSeq(u, LAMBDA c : c # cid)

RECURSIVE UseAll(_, _)
UseAll(u, ps) ==
    IF ps = << >> THEN u ELSE UseAll(Use(u, Head(ps).cid), Tail(ps))

\* SizedCache::cache_get: the entry of cid, if the cache holds one.
CacheHas(c, cid) == \E i \in 1..Len(c) : c[i].cid = cid

\* The place of cid's entry in the cache.
CacheValue(c, cid) == CHOOSE i \in 1..Len(c) : c[i].cid = cid

\* SizedCache::cache_get on a hit: the entry becomes the most recently used.
CacheTouch(c, cid) == << c[CacheValue(c, cid)] >> \o SelectSeq2(c, cid)

NoResult == [ok |-> FALSE, cid |-> NoCid, err |-> "pending"]
Ok(cid) == [ok |-> TRUE, cid |-> cid, err |-> ""]
Err(e) == [ok |-> FALSE, cid |-> NoCid, err |-> e]

InsertCall(cid, vis, ok) == [op |-> "insert", cid |-> cid, vis |-> vis, ok |-> ok]
UnpinCall(cid, ok) == [op |-> "unpin", cid |-> cid, vis |-> "", ok |-> ok]

NoArg == [v |-> 0, nonce |-> 0]

\* No value returned (yet).
NoValue == [set |-> FALSE, v |-> 0]
Value(v) == [set |-> TRUE, v |-> v]

NoPrev == [op |-> "none", result |-> NoResult, v |-> 0]

NoNode == [kind |-> "none", n |-> 0, kids |-> << >>]

\* What decrypt returns before it is called.
NoPlain == [ok |-> FALSE, err |-> "pending", codec |-> 0, data |-> << >>]

\* What get makes of a block before it has fetched one.
NoDecoded == [ok |-> FALSE, err |-> "pending", value |-> 0]

NoCrypt == [pc |-> "off", key |-> << >>, codec |-> 0, data |-> << >>,
            buf |-> << >>, err |-> "", where |-> "none", out |-> NoPlain,
            val |-> NoDecoded]

\* Callers that have not called yet.
InitTasks ==
    /\ pc = [t \in Tasks |-> "idle"]
    /\ op = [t \in Tasks |-> "none"]
    /\ blocks = [t \in Tasks |-> << >>]
    /\ pairs = [t \in Tasks |-> << >>]
    /\ ret = [t \in Tasks |-> NoResult]
    /\ idx = [t \in Tasks |-> 1]
    /\ phase = [t \in Tasks |-> "insert"]
    /\ last_cid = [t \in Tasks |-> NoCid]
    /\ result = [t \in Tasks |-> NoResult]
    /\ calls = [t \in Tasks |-> << >>]
    /\ arg = [t \in Tasks |-> NoArg]
    /\ gc_ran = [t \in Tasks |-> FALSE]
    /\ nops = 0
    /\ req = [t \in Tasks |-> NoCid]
    /\ got = [t \in Tasks |-> NoValue]
    /\ prev = [t \in Tasks |-> NoPrev]
    /\ path = [t \in Tasks |-> << >>]
    /\ node = [t \in Tasks |-> NoNode]
    /\ crypt = NoCrypt
    /\ nreads = 0
    /\ lock = 0

\* A builder over an empty store, and callers that have not called yet.
InitBuilder ==
    /\ builder \in Builders
    /\ store = << >>
    /\ pins = {}
    /\ cache = << >>
    /\ rng = 0
    /\ used = << >>
    /\ InitTasks

Init == InitBuilder /\ size = CacheSize

\* IpldCache::new with any capacity the bound allows.
InitCache == InitBuilder /\ size \in 1..CacheSize

\* ------------------------------------------------------ starting a batch

CanStart(t) == pc[t] \in {"idle", "done"} /\ nops < MaxOps

\* The locals of a task that starts operation o with batch bs.
Start(t, o, where, bs, ps, r, a) ==
    /\ op' = [op EXCEPT ![t] = o]
    /\ pc' = [pc EXCEPT ![t] = where]
    /\ blocks' = [blocks EXCEPT ![t] = bs]
    /\ pairs' = [pairs EXCEPT ![t] = ps]
    /\ ret' = [ret EXCEPT ![t] = r]
    /\ arg' = [arg EXCEPT ![t] = a]
    /\ idx' = [idx EXCEPT ![t] = 1]
    /\ phase' = [phase EXCEPT ![t] = "insert"]
    /\ last_cid' = [last_cid EXCEPT ![t] = NoCid]
    /\ calls' = [calls EXCEPT ![t] = << >>]
    /\ gc_ran' = [gc_ran EXCEPT ![t] = FALSE]
    /\ nops' = nops + 1

\* GenericBlockBuilder::create_batch: an empty batch holding the key.
CreateBatch(t) ==
    /\ CanStart(t)
    /\ Start(t, "insert_batch", "build", << >>, << >>, NoResult, NoArg)
    /\ result' = [result EXCEPT ![t] = NoResult]
    /\ UNCHANGED << lock, builder, store, pins, cache, rng,
                    size, getvars, crypt, used, nreads >>

\* Cache::create_batch: an empty typed batch.
CacheCreateBatch(t) ==
    /\ CanStart(t)
    /\ Start(t, "cache_insert_batch", "build", << >>, << >>, NoResult, NoArg)
    /\ result' = [result EXCEPT ![t] = NoResult]
    /\ UNCHANGED << lock, builder, store, pins, cache, rng,
                    size, getvars, crypt, used, nreads >>

\* rng.fill_bytes(nonce): a nonce no earlier call has drawn.
FreshNonce == rng + 1

\* Whether building the block of v reaches the nonce generation of encrypt:
\* the value is serialized, a key is held and it is long enough.
DrawsNonce(k, v) == v # BadValue /\ k.some /\ Len(k.bytes) >= MinKeyLen

RngAfter(k, v) == IF DrawsNonce(k, v) THEN rng + 1 ELSE rng

\* A batch that puts a new block in front of the earlier ones.
PushBlockFront(bs, b) == << b >> \o bs

\* self.blocks.push(block).
PushBlock(bs, b) == Append(bs, b)

\* GenericBatch::insert: build the block, push it, return its cid; an
\* encoding failure leaves the batch as it was.
BatchInsert(t, v) ==
    /\ pc[t] = "build"
    /\ op[t] = "insert_batch"
    /\ Len(blocks[t]) < MaxBatch
    /\ LET r == BuildBlock(builder.key, v, FreshNonce)
       IN  /\ blocks' = [blocks EXCEPT ![t] = IF r.ok THEN PushBlock(@, r.block) ELSE @]
           /\ ret' = [ret EXCEPT ![t] = IF r.ok THEN Ok(r.block.cid) ELSE @]
    /\ rng' = RngAfter(builder.key, v)
    /\ UNCHANGED << lock, builder, store, pins, cache, pc, op, pairs, idx, phase,
                    last_cid, result, calls, arg, gc_ran, nops,
                    size, getvars, crypt, used, nreads >>

\* CacheBatch::insert: batch.insert(&value)?, then push (cid, value).
CacheBatchInsert(t, v) ==
    /\ pc[t] = "build"
    /\ op[t] = "cache_insert_batch"
    /\ Len(blocks[t]) < MaxBatch
    /\ LET r == BuildBlock(builder.key, v, FreshNonce)
       IN  /\ blocks' = [blocks EXCEPT ![t] = IF r.ok THEN PushBlock(@, r.block) ELSE @]
           /\ pairs' = [pairs EXCEPT ![t] =
                           IF r.ok THEN Append(@, [cid |-> r.block.cid, value |-> v])
                           ELSE @]
           /\ ret' = [ret EXCEPT ![t] = IF r.ok THEN Ok(r.block.cid) ELSE @]
    /\ rng' = RngAfter(builder.key, v)
    /\ UNCHANGED << lock, builder, store, pins, cache, pc, op, idx, phase,
                    last_cid, result, calls, arg, gc_ran, nops,
                    size, getvars, crypt, used, nreads >>

\* ------------------------------------------------------------ insert_batch

IsCacheOp(o) == o \in {"cache_insert_batch", "cache_insert"}

\* A cache that finishes a commit without writing the cache.
AfterCommitDone(o) == "done"

\* Where a task goes when builder.insert_batch / builder.insert returned Ok:
\* the cache operations go on to fill the cache.
AfterCommit(o) == IF IsCacheOp(o) THEN "fill" ELSE "done"

\* last_cid.ok_or(Error::BlockTooLarge(0)) on a batch without blocks.
EmptyBatchError == "BlockTooLarge"

\* insert_batch is called: the iterator is taken; an empty batch falls
\* through the loop and returns at once.
InsertBatch(t) ==
    /\ pc[t] = "build"
    /\ pc' = [pc EXCEPT ![t] = IF blocks[t] = << >> THEN "done" ELSE "commit"]
    /\ result' = [result EXCEPT ![t] =
                     IF blocks[t] = << >> THEN Err(EmptyBatchError) ELSE NoResult]
    /\ UNCHANGED << lock, builder, store, pins, cache, op, blocks, pairs, ret, idx,
                    phase, last_cid, calls, arg, nops, rng, gc_ran,
                    size, getvars, crypt, used, nreads >>

CurBlock(t) == blocks[t][idx[t]]

Finished(t) == idx[t] = Len(blocks[t])

\* A commit that inserts every block as a public one.
InsertVisibilityPublic == Public

\* The visibility insert_batch hands to store.insert.
InsertVisibility == builder.visibility

\* A commit that unpins the block it has just inserted.
UnpinTargetCurrent(t) == blocks[t][idx[t]].cid

\* The cid insert_batch unpins after an insert: the previous block's.
UnpinTarget(t) == last_cid[t]

\* A commit that never unpins.
NeedsUnpinNever(t) == FALSE

\* Whether the loop body unpins after inserting: if let Some(..) = last_cid.
NeedsUnpin(t) == last_cid[t] # NoCid

\* A commit that returns the first block's cid.
BatchResultFirst(t, cid) == Ok(blocks[t][1].cid)

\* What insert_batch returns after the loop: last_cid.
BatchResult(t, cid) == Ok(cid)

\* store.insert(&cid, data, self.visibility).await succeeded.  Without a
\* previous block the loop body ends here: last_cid = Some(cid), and either
\* the next block follows or the loop ends and last_cid is returned.
StoreInsertOk(t) ==
    /\ pc[t] = "commit"
    /\ phase[t] = "insert"
    /\ LET b == CurBlock(t)
           more == NeedsUnpin(t)
           fin == ~more /\ Finished(t)
       IN  /\ store' = StoreInsert(store, b.cid, b.data, InsertVisibility)
           /\ pins' = PinsAfterInsert(pins, b.cid)
           /\ calls' = [calls EXCEPT ![t] =
                           Append(@, InsertCall(b.cid, InsertVisibility, TRUE))]
           /\ last_cid' = [last_cid EXCEPT ![t] = IF more THEN @ ELSE b.cid]
           /\ phase' = [phase EXCEPT ![t] = IF more THEN "unpin" ELSE "insert"]
           /\ idx' = [idx EXCEPT ![t] = IF more \/ fin THEN @ ELSE @ + 1]
           /\ pc' = [pc EXCEPT ![t] = IF fin THEN AfterCommit(op[t]) ELSE @]
           /\ result' = [result EXCEPT ![t] = IF fin THEN BatchResult(t, b.cid) ELSE @]
    /\ UNCHANGED << lock, builder, cache, op, blocks, pairs, ret, arg, nops, rng, gc_ran,
                    size, getvars, crypt, used, nreads >>

\* store.insert failed: the error is returned by `?`.
StoreInsertErr(t) ==
    /\ pc[t] = "commit"
    /\ phase[t] = "insert"
    /\ calls' = [calls EXCEPT ![t] =
                    Append(@, InsertCall(CurBlock(t).cid, InsertVisibility, FALSE))]
    /\ pc' = [pc EXCEPT ![t] = "done"]
    /\ result' = [result EXCEPT ![t] = Err("StoreError")]
    /\ UNCHANGED << lock, builder, store, pins, cache, op, blocks, pairs, ret, idx,
                    phase, last_cid, arg, nops, rng, gc_ran,
                    size, getvars, crypt, used, nreads >>

\* self.unpin(last_cid).await succeeded: last_cid = Some(cid), next block
\* or return.
UnpinOk(t) ==
    /\ pc[t] = "commit"
    /\ phase[t] = "unpin"
    /\ LET b == CurBlock(t)
           fin == Finished(t)
       IN  /\ pins' = PinsAfterUnpin(pins, UnpinTarget(t))
           /\ calls' = [calls EXCEPT ![t] = Append(@, UnpinCall(UnpinTarget(t), TRUE))]
           /\ last_cid' = [last_cid EXCEPT ![t] = b.cid]
           /\ phase' = [phase EXCEPT ![t] = "insert"]
           /\ idx' = [idx EXCEPT ![t] = IF fin THEN @ ELSE @ + 1]
           /\ pc' = [pc EXCEPT ![t] = IF fin THEN AfterCommit(op[t]) ELSE @]
           /\ result' = [result EXCEPT ![t] = IF fin THEN BatchResult(t, b.cid) ELSE @]
    /\ UNCHANGED << lock, builder, store, cache, op, blocks, pairs, ret, arg, nops, rng, gc_ran,
                    size, getvars, crypt, used, nreads >>

\* self.unpin failed: the error is returned by `?`.
UnpinErr(t) ==
    /\ pc[t] = "commit"
    /\ phase[t] = "unpin"
    /\ calls' = [calls EXCEPT ![t] = Append(@, UnpinCall(UnpinTarget(t), FALSE))]
    /\ pc' = [pc EXCEPT ![t] = "done"]
    /\ result' = [result EXCEPT ![t] = Err("StoreError")]
    /\ UNCHANGED << lock, builder, store, pins, cache, op, blocks, pairs, ret, idx,
                    phase, last_cid, arg, nops, rng, gc_ran,
                    size, getvars, crypt, used, nreads >>

\* -------------------------------------------------------- insert(value)

\* GenericBlockBuilder::insert of builder.rs: create_batch, batch.insert(e)?,
\* insert_batch(batch).
BuilderInsert(t, v) ==
    /\ CanStart(t)
    /\ LET r == BuildBlock(builder.key, v, FreshNonce)
       IN  IF r.ok
           THEN /\ Start(t, "insert", "commit", PushBlock(<< >>, r.block), << >>,
                         Ok(r.block.cid), [v |-> v, nonce |-> FreshNonce])
                /\ result' = [result EXCEPT ![t] = NoResult]
           ELSE /\ Start(t, "insert", "done", << >>, << >>, NoResult,
                         [v |-> v, nonce |-> FreshNonce])
                /\ result' = [result EXCEPT ![t] = Err(r.err)]
    /\ rng' = RngAfter(builder.key, v)
    /\ UNCHANGED << lock, builder, store, pins, cache,
                    size, getvars, crypt, used, nreads >>

\* Cache::insert: builder.insert(&value).await?, then cache_set(cid, value).
CacheInsert(t, v) ==
    /\ CanStart(t)
    /\ LET r == BuildBlock(builder.key, v, FreshNonce)
       IN  IF r.ok
           THEN /\ Start(t, "cache_insert", "commit", PushBlock(<< >>, r.block),
                         << [cid |-> r.block.cid, value |-> v] >>,
                         Ok(r.block.cid), [v |-> v, nonce |-> FreshNonce])
                /\ result' = [result EXCEPT ![t] = NoResult]
           ELSE /\ Start(t, "cache_insert", "done", << >>, << >>, NoResult,
                         [v |-> v, nonce |-> FreshNonce])
                /\ result' = [result EXCEPT ![t] = Err(r.err)]
    /\ rng' = RngAfter(builder.key, v)
    /\ UNCHANGED << lock, builder, store, pins, cache,
                    size, getvars, crypt, used, nreads >>

\* Cache::insert_batch / Cache::insert after the builder returned Ok: the
\* lock is taken and every (cid, value) of the batch is written in order.
CacheFill(t) ==
    /\ pc[t] = "fill"
    /\ lock = 0
    /\ cache' = CacheSetAll(cache, pairs[t])
    /\ pc' = [pc EXCEPT ![t] = "done"]
    /\ used' = UseAll(used, pairs[t])
    /\ UNCHANGED << lock, builder, store, pins, op, blocks, pairs, ret, idx, phase,
                    last_cid, result, calls, arg, nops, rng, gc_ran,
                    size, getvars, crypt, nreads >>

\* GenericBlockBuilder::insert of lib.rs: encode (and encrypt), then one
\* store.insert.
LibInsert(t, v) ==
    /\ CanStart(t)
    /\ LET r == BuildBlock(builder.key, v, FreshNonce)
       IN  IF r.ok
           THEN /\ Start(t, "lib_insert", "lib_store", << r.block >>, << >>,
                         NoResult, [v |-> v, nonce |-> FreshNonce])
                /\ result' = [result EXCEPT ![t] = NoResult]
           ELSE /\ Start(t, "lib_insert", "done", << >>, << >>, NoResult,
                         [v |-> v, nonce |-> FreshNonce])
                /\ result' = [result EXCEPT ![t] = Err(r.err)]
    /\ rng' = RngAfter(builder.key, v)
    /\ UNCHANGED << lock, builder, store, pins, cache,
                    size, getvars, crypt, used, nreads >>

\* lib.rs: self.store.insert(&cid, data, self.visibility).await?; Ok(cid).
LibStoreInsertOk(t) ==
    /\ pc[t] = "lib_store"
    /\ LET b == blocks[t][1]
       IN  /\ store' = StoreInsert(store, b.cid, b.data, builder.visibility)
           /\ pins' = PinsAfterInsert(pins, b.cid)
           /\ calls' = [calls EXCEPT ![t] =
                           Append(@, InsertCall(b.cid, builder.visibility, TRUE))]
           /\ result' = [result EXCEPT ![t] = Ok(b.cid)]
    /\ pc' = [pc EXCEPT ![t] = "done"]
    /\ UNCHANGED << lock, builder, cache, op, blocks, pairs, ret, idx, phase,
                    last_cid, arg, nops, rng, gc_ran,
                    size, getvars, crypt, used, nreads >>

LibStoreInsertErr(t) ==
    /\ pc[t] = "lib_store"
    /\ calls' = [calls EXCEPT ![t] =
                    Append(@, InsertCall(blocks[t][1].cid, builder.visibility, FALSE))]
    /\ result' = [result EXCEPT ![t] = Err("StoreError")]
    /\ pc' = [pc EXCEPT ![t] = "done"]
    /\ UNCHANGED << lock, builder, store, pins, cache, op, blocks, pairs, ret, idx,
                    phase, last_cid, arg, nops, rng, gc_ran,
                    size, getvars, crypt, used, nreads >>

\* ------------------------------------------------------ garbage collector

\* The store's collector: every block that is neither pinned nor reachable
\* from a pinned block is removed.
GC ==
    /\ store' = [c \in Live(store, pins) |-> store[c]]
    /\ gc_ran' = [t \in Tasks |-> gc_ran[t] \/ pc[t] = "commit"]
    /\ UNCHANGED << lock, builder, pins, cache, pc, op, blocks, pairs, ret, idx,
                    phase, last_cid, result, calls, arg, nops, rng,
                    size, getvars, crypt, used, nreads >>

\* -------------------------------------------------------------------- get

GetCall(cid, ok) == [op |-> "get", cid |-> cid, vis |-> "", ok |-> ok]

\* A task can start a read whenever it is not inside an operation.
CanRead(t) == pc[t] \in {"idle", "done"} /\ nreads < MaxReads

\* The cids a caller may ask for: those of the stored blocks and one more.
KnownCids == DOMAIN store \cup {PlainCid(1)}

\* The locals of a task that starts the read o of cid c.
StartRead(t, o, where, c, g, r) ==
    /\ op' = [op EXCEPT ![t] = o]
    /\ pc' = [pc EXCEPT ![t] = where]
    /\ req' = [req EXCEPT ![t] = c]
    /\ got' = [got EXCEPT ![t] = g]
    /\ prev' = [prev EXCEPT ![t] =
                   [op |-> op[t], result |-> result[t], v |-> arg[t].v]]
    /\ calls' = [calls EXCEPT ![t] = << >>]
    /\ result' = [result EXCEPT ![t] = r]
    /\ nreads' = nreads + 1

\* GenericBlockBuilder::get is called with cid c.
GetStart(t, c) ==
    /\ CanRead(t)
    /\ StartRead(t, "get", "fetch", c, NoValue, NoResult)
    /\ UNCHANGED << lock, builder, store, pins, cache, blocks, pairs, ret, idx,
                    phase, last_cid, arg, rng, gc_ran, nops, size, path,
                    node, crypt, used >>

\* What get makes of the bytes the store returned.
Decoded(cid, data) == DecodeBlock(builder.key, cid, data)

\* A cache get that returns the fetched value without writing the cache.
AfterFetchDone(o) == "done"

\* Where a read goes when the block is fetched and decoded: get returns,
\* the cache's get goes on to write the cache.
AfterFetch(o) == IF o = "cache_get" THEN "put" ELSE "done"

\* self.store.get(cid).await returned the block: it is decoded, and the
\* value or the decoding error is returned.
FetchOk(t) ==
    /\ pc[t] = "fetch"
    /\ req[t] \in DOMAIN store
    /\ LET d == Decoded(req[t], store[req[t]].data)
       IN  /\ got' = [got EXCEPT ![t] = IF d.ok THEN Value(d.value) ELSE @]
           /\ result' = [result EXCEPT ![t] =
                            IF d.ok THEN Ok(req[t]) ELSE Err(d.err)]
           /\ pc' = [pc EXCEPT ![t] = IF d.ok THEN AfterFetch(op[t]) ELSE "done"]
    /\ calls' = [calls EXCEPT ![t] = Append(@, GetCall(req[t], TRUE))]
    /\ UNCHANGED << lock, builder, store, pins, cache, op, blocks, pairs, ret, idx,
                    phase, last_cid, arg, rng, gc_ran, nops, size, req, prev,
                    path, node, crypt, used, nreads >>

\* self.store.get(cid).await? failed: the block is missing or the store is
\* broken.
FetchErr(t) ==
    /\ pc[t] = "fetch"
    /\ calls' = [calls EXCEPT ![t] = Append(@, GetCall(req[t], FALSE))]
    /\ result' = [result EXCEPT ![t] = Err("StoreError")]
    /\ pc' = [pc EXCEPT ![t] = "done"]
    /\ UNCHANGED << lock, builder, store, pins, cache, op, blocks, pairs, ret, idx,
                    phase, last_cid, arg, rng, gc_ran, nops, size, getvars,
                    crypt, used, nreads >>

\* --------------------------------------------------------------- get_path

\* libipld's Ipld, as far as paths see it: integers, links, maps and lists.
\* A link names the value whose block it points to.
IpldInteger(n) == [kind |-> "int", n |-> n, kids |-> << >>]
IpldLink(v) == [kind |-> "link", n |-> v, kids |-> << >>]
IpldMap(f) == [kind |-> "map", n |-> 0, kids |-> f]
IpldList(s) == [kind |-> "list", n |-> 0, kids |-> s]

\* The payload of a block that links back to the block of value 1; no insert
\* of the builder produces it.
LoopValue == 0

\* The payload of a block whose root value is a link to the block of value
\* 1; no insert of the builder produces it either.
RootLinkValue == Len(LinkTable) + 2

\* The Ipld of each value, with the links LinkTable gives it: 1 is {"a": 3},
\* 2 is {"root": [{"child": link to 1}]}, 3 is [5], 4 is [link to 2, link
\* to 3]; the root-link payload is a link to 1, the loop payload is
\* {"next": link to 1}.
IpldOf(v) ==
    CASE v = 1 -> IpldMap([a |-> IpldInteger(3)])
      [] v = 2 -> IpldMap([root |-> IpldList(<< IpldMap([child |-> IpldLink(1)]) >>)])
      [] v = 3 -> IpldList(<< IpldInteger(5) >>)
      [] v = 4 -> IpldList(<< IpldLink(2), IpldLink(3) >>)
      [] v = RootLinkValue -> IpldLink(1)
      [] OTHER -> IpldMap([next |-> IpldLink(1)])

\* The segments callers put into paths.
Segments == {"a", "root", "0", "1", "child", "next"}

\* A segment read as a list index: "0" is the first element, "1" the
\* second; the other segments are no indices.
SegIndex(seg) == CASE seg = "0" -> 1 [] seg = "1" -> 2 [] OTHER -> 0

\* Ipld::get(segment): the entry of a map under the key, the element of a
\* list under the index, an error on anything else.
IpldGet(nd, seg) ==
    IF nd.kind = "map"
    THEN IF seg \in DOMAIN nd.kids
         THEN [ok |-> TRUE, node |-> nd.kids[seg]]
         ELSE [ok |-> FALSE, node |-> NoNode]
    ELSE IF nd.kind = "list" /\ SegIndex(seg) \in DOMAIN nd.kids
         THEN [ok |-> TRUE, node |-> nd.kids[SegIndex(seg)]]
         ELSE [ok |-> FALSE, node |-> NoNode]

\* get_ipld behind store.get: the block is decoded as get decodes it, into
\* its Ipld.
DecodeIpld(k, cid, data) ==
    LET d == DecodeBlock(k, cid, data)
    IN  [ok |-> d.ok, err |-> d.err,
         node |-> IF d.ok THEN IpldOf(d.value) ELSE NoNode]

\* The cid of the block of value v in a store filled by inserting the values
\* in order: the v-th insert drew the v-th nonce.
LinkCid(k, v) == BuildBlock(k, v, v).block.cid

\* That store.
DagStore(k, vis) ==
    [c \in { LinkCid(k, v) : v \in Values } |->
        LET v == CHOOSE w \in Values : LinkCid(k, w) = c
        IN  [data |-> BuildBlock(k, v, v).block.data, visibility |-> vis]]

\* That store after a caller has used Store::insert to put another payload
\* under the cid of value v.
StoreWith(k, vis, v, payload) ==
    [c \in DOMAIN DagStore(k, vis) |->
        IF c = LinkCid(k, v)
        THEN [data |-> IF k.some
                       THEN Encrypt(k.bytes, DagCborCode, Serialize(payload), v).bytes
                       ELSE Serialize(payload),
              visibility |-> vis]
        ELSE DagStore(k, vis)[c]]

\* The loop payload under the cid of value 1: following "next" from that
\* block leads back to it.
LoopStore(k, vis) == StoreWith(k, vis, 1, LoopValue)

\* The root-link payload under the cid of value 3: the root value of that
\* block is a link.
RootLinkStore(k, vis) == StoreWith(k, vis, 3, RootLinkValue)

\* A resolver that hands back a link found under the last segment instead
\* of following it.
FollowLinkInner(nd, p, i) == nd.kind = "link" /\ i < Len(p)

\* `if let Ipld::Link(cid) = ipld`: the value found under segment i of path
\* p is a link, and is followed.
FollowLink(nd, p, i) == nd.kind = "link"

\* A loop that applies the segment that yielded a link once more to the
\* linked block.
ResumeAtSame(i) == i

\* The for loop over the segments: after the link found under segment i is
\* followed, the loop goes on with the next segment.
ResumeAt(i) == i + 1

\* The loop of get_path from segment i of path p on, standing on value nd,
\* up to its next store call: it runs off the end of the path ("done"),
\* finds a link to follow ("link"), or fails to index ("err").
RECURSIVE Advance(_, _, _)

\* A loop that passes over a segment that does not apply.
OnIndexErrorSkip(nd, p, i) == Advance(nd, p, i + 1)

\* `ipld.get(segment)?` on a segment that does not apply: get_path returns
\* the error.
OnIndexError(nd, p, i) == [kind |-> "err", node |-> nd, idx |-> i]

Advance(nd, p, i) ==
    IF i > Len(p)
    THEN [kind |-> "done", node |-> nd, idx |-> i]
    ELSE LET g == IpldGet(nd, p[i])
         IN  IF ~g.ok
             THEN OnIndexError(nd, p, i)
             ELSE IF FollowLink(g.node, p, i)
                  THEN [kind |-> "link", node |-> g.node, idx |-> ResumeAt(i)]
                  ELSE Advance(g.node, p, i + 1)

\* The paths callers resolve: up to MaxPath segments.
Paths == UNION { [1..n -> Segments] : n \in 0..MaxPath }

\* GenericBlockBuilder::get_path is called with root c and path p.
PathStart(t, c, p) ==
    /\ CanRead(t)
    /\ StartRead(t, "get_path", "root", c, NoValue, NoResult)
    /\ path' = [path EXCEPT ![t] = p]
    /\ idx' = [idx EXCEPT ![t] = 1]
    /\ node' = [node EXCEPT ![t] = NoNode]
    /\ UNCHANGED << lock, builder, store, pins, cache, blocks, pairs, ret, phase,
                    last_cid, arg, rng, gc_ran, nops, size, crypt, used >>

\* The cid get_path is fetching: the root of the path, or the target of the
\* link the loop stands on.
PathCid(t) ==
    IF pc[t] = "root" THEN req[t] ELSE LinkCid(builder.key, node[t].n)

\* get_ipld returned to get_path: the block is decoded and the loop runs to
\* its next store call, to the end of the path or to an error.
PathFetched(t, cid) ==
    LET d == DecodeIpld(builder.key, cid, store[cid].data)
        a == Advance(d.node, path[t], idx[t])
    IN  /\ calls' = [calls EXCEPT ![t] = Append(@, GetCall(cid, TRUE))]
        /\ IF ~d.ok
           THEN /\ result' = [result EXCEPT ![t] = Err(d.err)]
                /\ pc' = [pc EXCEPT ![t] = "done"]
                /\ UNCHANGED << node, idx >>
           ELSE /\ node' = [node EXCEPT ![t] = a.node]
                /\ idx' = [idx EXCEPT ![t] = a.idx]
                /\ result' = [result EXCEPT ![t] =
                                 CASE a.kind = "done" -> Ok(req[t])
                                   [] a.kind = "err" -> Err("IpldError")
                                   [] OTHER -> @]
                /\ pc' = [pc EXCEPT ![t] =
                             IF a.kind = "link" THEN "link" ELSE "done"]
        /\ UNCHANGED << lock, builder, store, pins, cache, op, blocks, pairs, ret,
                        phase, last_cid, arg, rng, gc_ran, nops, size, req,
                        got, prev, path, crypt, used, nreads >>

\* `let mut root = self.get_ipld(path.root()).await?` returned the block.
PathRoot(t) ==
    /\ pc[t] = "root"
    /\ req[t] \in DOMAIN store
    /\ PathFetched(t, req[t])

\* `root = self.get_ipld(cid).await?` inside the loop returned the block.
PathLink(t) ==
    /\ pc[t] = "link"
    /\ PathCid(t) \in DOMAIN store
    /\ PathFetched(t, PathCid(t))

\* Either get_ipld failed in the store: get_path returns the error.
PathFetchErr(t) ==
    /\ pc[t] \in {"root", "link"}
    /\ calls' = [calls EXCEPT ![t] = Append(@, GetCall(PathCid(t), FALSE))]
    /\ result' = [result EXCEPT ![t] = Err("StoreError")]
    /\ pc' = [pc EXCEPT ![t] = "done"]
    /\ UNCHANGED << lock, builder, store, pins, cache, op, blocks, pairs, ret, idx,
                    phase, last_cid, arg, rng, gc_ran, nops, size, getvars,
                    crypt, used, nreads >>

\* The builders that can fill a store.
PathBuilders == { b \in Builders : BuildBlock(b.key, 1, 1).ok }

\* A builder over a store that holds the blocks of all the values, as
\* inserts left them, with the loop put in, or with the root link put in.
InitPath ==
    /\ builder \in PathBuilders
    /\ store \in { DagStore(builder.key, builder.visibility),
                   LoopStore(builder.key, builder.visibility),
                   RootLinkStore(builder.key, builder.visibility) }
    /\ pins = DOMAIN store
    /\ cache = << >>
    /\ size = CacheSize
    /\ used = << >>
    /\ rng = IF DrawsNonce(builder.key, 1) THEN Len(LinkTable) ELSE 0
    /\ InitTasks

\* ------------------------------------------------------ encrypt / decrypt

\* The keys callers hand to encrypt and decrypt: one too short, the
\* shortest accepted one and a longer one.
CryptKeys == { KeyOfLen(n).bytes : n \in {MinKeyLen - 1, MinKeyLen, MinKeyLen + 1} }

\* The plaintexts: up to MaxPlain bytes, the empty one included; some are
\* encodings of a value.
PlainBytes == {0, 97, DagCborCode}

Plaintexts == UNION { [1..n -> PlainBytes] : n \in 0..MaxPlain }

\* A caller about to call encrypt(key, codec, data).
CryptCall(k, c, d) ==
    [pc |-> "call", key |-> k, codec |-> c, data |-> d, buf |-> << >>,
     err |-> "", where |-> "none", out |-> NoPlain, val |-> NoDecoded]

\* crypto::encrypt runs with the nonce the generator hands out.
EncryptCall(n) ==
    /\ crypt.pc = "call"
    /\ LET e == Encrypt(crypt.key, crypt.codec, crypt.data, n)
       IN  crypt' = [crypt EXCEPT !.pc = IF e.ok THEN "sealed" ELSE "failed",
                                  !.buf = e.bytes,
                                  !.err = e.err]
    /\ UNCHANGED << lock, builder, store, pins, cache, pc, op, blocks, pairs, ret,
                    idx, phase, last_cid, result, calls, arg, rng, gc_ran,
                    nops, size, getvars, used, nreads >>

\* Byte b with bit j flipped.
FlipBit(b, j) == IF (b \div (2 ^ j)) % 2 = 1 THEN b - 2 ^ j ELSE b + 2 ^ j

\* The part of an encrypted buffer unit i lies in.
PartOf(buf, i) ==
    IF i <= NonceLen THEN "nonce"
    ELSE IF i > Len(buf) - TagLen THEN "tag" ELSE "body"

\* The buffer with one bit of unit i flipped: a bit of the nonce, of a byte
\* of the encrypted segment, or of the tag (which then is another tag).
FlipUnit(buf, i, j) ==
    [buf EXCEPT ![i] = IF PartOf(buf, i) = "tag"
                       THEN << FlipBit(@[1], j), @[2], @[3] >>
                       ELSE FlipBit(@, j)]

\* Somebody flips bit j of unit i of the encrypted buffer.
Tamper(i, j) ==
    /\ crypt.pc = "sealed"
    /\ i \in 1..Len(crypt.buf)
    /\ crypt' = [crypt EXCEPT !.pc = "tampered",
                              !.buf = FlipUnit(crypt.buf, i, j),
                              !.where = PartOf(crypt.buf, i)]
    /\ UNCHANGED << lock, builder, store, pins, cache, pc, op, blocks, pairs, ret,
                    idx, phase, last_cid, result, calls, arg, rng, gc_ran,
                    nops, size, getvars, used, nreads >>

\* crypto::decrypt runs on the buffer under the key it was encrypted with.
DecryptCall ==
    /\ crypt.pc \in {"sealed", "tampered"}
    /\ crypt' = [crypt EXCEPT !.pc = "opened",
                              !.out = Decrypt(crypt.key, crypt.buf)]
    /\ UNCHANGED << lock, builder, store, pins, cache, pc, op, blocks, pairs, ret,
                    idx, phase, last_cid, result, calls, arg, rng, gc_ran,
                    nops, size, getvars, used, nreads >>

\* A tag no encrypt has written.
ForeignTag == << 0, 0, << >> >>

\* Buffers that come from elsewhere: empty, a nonce alone, a nonce and a
\* tag with nothing between them, and one with a byte between them.
ForeignBufs ==
    { << >> }
    \cup { << n >> : n \in 1..MaxNonce }
    \cup { << n, ForeignTag >> : n \in 1..MaxNonce }
    \cup { << n, b, ForeignTag >> : n \in 1..MaxNonce, b \in PlainBytes }

\* crypto::decrypt runs on a buffer that encrypt has not written.
DecryptForeign(buf) ==
    /\ crypt.pc = "call"
    /\ crypt' = [crypt EXCEPT !.pc = "opened",
                              !.buf = buf,
                              !.where = "foreign",
                              !.out = Decrypt(crypt.key, buf)]
    /\ UNCHANGED << lock, builder, store, pins, cache, pc, op, blocks, pairs, ret,
                    idx, phase, last_cid, result, calls, arg, rng, gc_ran,
                    nops, size, getvars, used, nreads >>

\* GenericBlockBuilder::get of a private builder, behind store.get: the
\* buffer is the data of a raw block and is decrypted and decoded.
GetDecode ==
    /\ crypt.pc \in {"sealed", "tampered"}
    /\ LET k == [some |-> TRUE, bytes |-> crypt.key]
       IN  crypt' = [crypt EXCEPT
                        !.pc = "decoded",
                        !.out = Decrypt(crypt.key, crypt.buf),
                        !.val = DecodeBlock(k, MkCid(RawCode, crypt.buf),
                                            crypt.buf)]
    /\ UNCHANGED << lock, builder, store, pins, cache, pc, op, blocks, pairs, ret,
                    idx, phase, last_cid, result, calls, arg, rng, gc_ran,
                    nops, size, getvars, used, nreads >>

\* ---------------------------------------------------------- cache get

\* A get that keeps the guard of the mutex while it fetches a missing block.
GuardAfterLookupKept(t, hit) == IF hit THEN 0 ELSE t

\* The holder of the mutex when the `if let` statement of get is over: the
\* guard is a temporary of that statement, and is dropped with it.
GuardAfterLookup(t, hit) == 0

\* ReadonlyCache::get: the lock is taken and the cache asked; a hit returns
\* the cached value, a miss goes on to builder.get.
CacheGet(t, c) ==
    /\ CanRead(t)
    /\ lock = 0
    /\ lock' = GuardAfterLookup(t, CacheHas(cache, c))
    /\ IF CacheHas(cache, c)
       THEN /\ StartRead(t, "cache_get", "done", c,
                         Value(cache[CacheValue(cache, c)].value), Ok(c))
            /\ cache' = CacheTouch(cache, c)
       ELSE /\ StartRead(t, "cache_get", "fetch", c, NoValue, NoResult)
            /\ cache' = cache
    /\ used' = IF CacheHas(cache, c) THEN Use(used, c) ELSE used
    /\ UNCHANGED << builder, store, pins, blocks, pairs, ret, idx, phase,
                    last_cid, arg, rng, gc_ran, nops, size, path, node,
                    crypt >>

\* A cache get that writes under the cid another task has asked for.
PutCidOther(t) ==
    LET u == CHOOSE x \in Tasks : x # t
    IN  IF req[u] # NoCid THEN req[u] ELSE req[t]

\* The key ReadonlyCache::get writes the fetched value under: cid.clone().
PutCid(t) == req[t]

\* ReadonlyCache::get after builder.get returned the value: the lock is
\* taken again (the task waits while another holds it), the value written
\* under the requested cid and returned, and the guard dropped.
CachePut(t) ==
    /\ pc[t] = "put"
    /\ lock = 0
    /\ cache' = CacheSet(cache, PutCid(t), got[t].v)
    /\ pc' = [pc EXCEPT ![t] = "done"]
    /\ used' = Use(used, PutCid(t))
    /\ UNCHANGED << lock, builder, store, pins, op, blocks, pairs, ret, idx, phase,
                    last_cid, result, calls, arg, rng, gc_ran, nops, size,
                    getvars, crypt, nreads >>

\* The leaves, in the order an earlier caller has put them into the cache.
WarmValues == << 1, 3 >>

\* The pairs that caller's cache inserts produced, one fresh nonce each;
\* none when the builder cannot build a block.
WarmPairs(k) ==
    IF BuildBlock(k, WarmValues[1], 1).ok
    THEN [i \in 1..Len(WarmValues) |->
             [cid |-> BuildBlock(k, WarmValues[i], i).block.cid,
              value |-> WarmValues[i]]]
    ELSE << >>

\* The store after those inserts: every block stored and pinned.
WarmStore(k, vis) ==
    LET ps == WarmPairs(k)
    IN  [c \in { ps[i].cid : i \in 1..Len(ps) } |->
            LET i == CHOOSE j \in 1..Len(ps) : ps[j].cid = c
            IN  [data |-> BuildBlock(k, WarmValues[i], i).block.data,
                 visibility |-> vis]]

\* A cache of any capacity after an earlier caller has inserted the leaves
\* one after the other: the state two concurrent callers start from.
InitCacheConc ==
    /\ builder \in Builders
    /\ size \in 1..CacheSize
    /\ store = WarmStore(builder.key, builder.visibility)
    /\ pins = DOMAIN store
    /\ cache = CacheSetAll(<< >>, WarmPairs(builder.key))
    /\ used = UseAll(<< >>, WarmPairs(builder.key))
    /\ rng = IF DrawsNonce(builder.key, WarmValues[1]) THEN Len(WarmValues) ELSE 0
    /\ InitTasks

\* --------------------------------------------------------- specifications

\* What a task does with a batch of the builder.
BatchNext(t) ==
    \/ CreateBatch(t)
    \/ \E v \in Inputs : BatchInsert(t, v)
    \/ InsertBatch(t)
    \/ StoreInsertOk(t)
    \/ StoreInsertErr(t)
    \/ UnpinOk(t)
    \/ UnpinErr(t)

\* insert(value) of both builders, and the cache's operations.
ValueNext(t) ==
    \/ CacheCreateBatch(t)
    \/ \E v \in Inputs : CacheBatchInsert(t, v)
    \/ \E v \in Inputs : BuilderInsert(t, v)
    \/ \E v \in Inputs : CacheInsert(t, v)
    \/ CacheFill(t)
    \/ \E v \in Inputs : LibInsert(t, v)
    \/ LibStoreInsertOk(t)
    \/ LibStoreInsertErr(t)

\* One task using the builder and the cache.
Next == BatchNext(1) \/ ValueNext(1)

Spec == Init /\ [][Next]_vars

\* One task committing batches, and the store's garbage collector.
NextGC == BatchNext(1) \/ GC

SpecGC == Init /\ [][NextGC]_vars

\* Two tasks sharing the builder and the store, each committing one batch.
ConcNext(t) ==
    \/ op[t] = "none" /\ CreateBatch(t)
    \/ \E v \in Inputs : Len(blocks[t]) < MaxConcBatch /\ BatchInsert(t, v)
    \/ InsertBatch(t)
    \/ StoreInsertOk(t)
    \/ StoreInsertErr(t)
    \/ UnpinOk(t)
    \/ UnpinErr(t)

NextConc == \E t \in Tasks : ConcNext(t)

SpecConc == Init /\ [][NextConc]_vars

\* One task inserting values and reading blocks back.
NextGet ==
    \/ \E v \in Inputs : BuilderInsert(1, v)
    \/ \E v \in Inputs : LibInsert(1, v)
    \/ StoreInsertOk(1)
    \/ StoreInsertErr(1)
    \/ LibStoreInsertOk(1)
    \/ LibStoreInsertErr(1)
    \/ \E c \in KnownCids : GetStart(1, c)
    \/ FetchOk(1)
    \/ FetchErr(1)

SpecGet == Init /\ [][NextGet]_vars

\* What a task does with the typed cache.
CacheNext(t) ==
    \/ \E v \in Inputs : CacheInsert(t, v)
    \/ CacheCreateBatch(t)
    \/ \E v \in Inputs : Len(blocks[t]) < MaxConcBatch /\ CacheBatchInsert(t, v)
    \/ InsertBatch(t)
    \/ StoreInsertOk(t)
    \/ StoreInsertErr(t)
    \/ UnpinOk(t)
    \/ UnpinErr(t)
    \/ CacheFill(t)
    \/ \E c \in KnownCids : CacheGet(t, c)
    \/ FetchOk(t)
    \/ FetchErr(t)
    \/ CachePut(t)

\* One task using a typed cache of any capacity.
NextCache == CacheNext(1)

SpecCache == InitCache /\ [][NextCache]_vars

\* The values two concurrent callers put into the cache: the leaves.
ConcValues == { WarmValues[i] : i \in 1..Len(WarmValues) }

\* What one of two concurrent tasks does with the typed cache: one call.
CacheConcNext(t) ==
    \/ \E v \in ConcValues : op[t] = "none" /\ CacheInsert(t, v)
    \/ op[t] = "none" /\ CacheCreateBatch(t)
    \/ \E v \in ConcValues : Len(blocks[t]) < MaxConcBatch /\ CacheBatchInsert(t, v)
    \/ InsertBatch(t)
    \/ StoreInsertOk(t)
    \/ StoreInsertErr(t)
    \/ UnpinOk(t)
    \/ UnpinErr(t)
    \/ CacheFill(t)
    \/ \E c \in KnownCids : op[t] = "none" /\ CacheGet(t, c)
    \/ FetchOk(t)
    \/ FetchErr(t)
    \/ CachePut(t)

\* Two tasks calling the typed cache concurrently.
NextCacheConc == \E t \in Tasks : CacheConcNext(t)

SpecCacheConc == InitCacheConc /\ [][NextCacheConc]_vars

\* One caller resolving one path.
PathSteps == PathRoot(1) \/ PathLink(1) \/ PathFetchErr(1)

NextPath ==
    \/ op[1] = "none" /\ \E c \in DOMAIN store, p \in Paths : PathStart(1, c, p)
    \/ PathRoot(1)
    \/ PathLink(1)
    \/ PathFetchErr(1)

SpecPath == InitPath /\ [][NextPath]_vars

\* A get is pending for the caller.
PathPending == pc[1] \in {"root", "link"}

\* The executor keeps polling the caller and the store answers every get:
\* WF_vars(PathSteps), with ENABLED <<PathSteps>>_vars written as the state
\* predicate it equals (a pending get can always fail).
PathFair == []<>(~PathPending) \/ []<><<PathSteps>>_vars

SpecPathLive == SpecPath /\ PathFair


\* A store two builders share, a public one and a private one: it holds the
\* plain blocks of all the values and their encrypted blocks.
MixedStore ==
    LET pub == DagStore(NoKey, Public)
        prv == DagStore(KeyOfLen(MinKeyLen), Private)
    IN  [c \in DOMAIN pub \cup DOMAIN prv |->
            IF c \in DOMAIN pub THEN pub[c] ELSE prv[c]]

\* A typed cache of any capacity, still empty, over the shared store.
InitCacheRead ==
    /\ builder \in PathBuilders
    /\ store = MixedStore
    /\ pins = DOMAIN store
    /\ cache = << >>
    /\ size \in 1..CacheSize
    /\ used = << >>
    /\ rng = Len(LinkTable)
    /\ InitTasks

\* One task reading through the cache.
NextCacheRead ==
    \/ \E c \in DOMAIN store : CacheGet(1, c)
    \/ FetchOk(1)
    \/ FetchErr(1)
    \/ CachePut(1)

SpecCacheRead == InitCacheRead /\ [][NextCacheRead]_vars

\* A caller of the crypto functions: any key, codec tag and plaintext.
InitCrypto ==
    /\ builder = [visibility |-> Public, key |-> NoKey]
    /\ store = << >>
    /\ pins = {}
    /\ cache = << >>
    /\ size = CacheSize
    /\ used = << >>
    /\ rng = 0
    /\ pc = [t \in Tasks |-> "idle"]
    /\ op = [t \in Tasks |-> "none"]
    /\ blocks = [t \in Tasks |-> << >>]
    /\ pairs = [t \in Tasks |-> << >>]
    /\ ret = [t \in Tasks |-> NoResult]
    /\ idx = [t \in Tasks |-> 1]
    /\ phase = [t \in Tasks |-> "insert"]
    /\ last_cid = [t \in Tasks |-> NoCid]
    /\ result = [t \in Tasks |-> NoResult]
    /\ calls = [t \in Tasks |-> << >>]
    /\ arg = [t \in Tasks |-> NoArg]
    /\ gc_ran = [t \in Tasks |-> FALSE]
    /\ nops = 0
    /\ req = [t \in Tasks |-> NoCid]
    /\ got = [t \in Tasks |-> NoValue]
    /\ prev = [t \in Tasks |-> NoPrev]
    /\ path = [t \in Tasks |-> << >>]
    /\ node = [t \in Tasks |-> NoNode]
    /\ nreads = 0
    /\ lock = 0
    /\ crypt \in { CryptCall(k, c, d) :
                     k \in CryptKeys, c \in KnownCodecs, d \in Plaintexts }

NextCrypto ==
    \/ \E n \in 1..MaxNonce : EncryptCall(n)
    \/ \E i \in 1..(NonceLen + 2 + MaxPlain + TagLen), j \in 0..7 : Tamper(i, j)
    \/ DecryptCall
    \/ GetDecode
    \/ \E buf \in ForeignBufs : DecryptForeign(buf)

SpecCrypto == InitCrypto /\ [][NextCrypto]_vars

\* ----------------------------------------------------------------- claims

\* The operations that commit through insert_batch.
CommitOps == {"insert_batch", "cache_insert_batch", "insert", "cache_insert"}

\* insert_batch has returned Ok to task t.
Committed(t) ==
    /\ op[t] \in CommitOps
    /\ pc[t] \in {"done", "fill"}
    /\ result[t].ok

BatchCids(t) == { blocks[t][i].cid : i \in 1..Len(blocks[t]) }

LastBlock(t) == blocks[t][Len(blocks[t])]

\* C1: after a successful insert_batch, among the cids of the batch's own
\* blocks exactly the last block's cid is pinned, for every batch, also one
\* in which a cid occurs more than once.
C1_OnlyLastPinned ==
    Committed(1) => pins \cap BatchCids(1) = {LastBlock(1).cid}

\* C1, where it fails: a committed batch whose last two blocks are the same.
C1_RepeatedCid ==
    /\ Committed(1)
    /\ Len(blocks[1]) >= 2
    /\ blocks[1][Len(blocks[1]) - 1].cid = LastBlock(1).cid

RECURSIVE ExpectedCalls(_, _, _)
ExpectedCalls(bs, vis, i) ==
    IF i > Len(bs) THEN << >>
    ELSE << InsertCall(bs[i].cid, vis, TRUE) >>
         \o (IF i > 1 THEN << UnpinCall(bs[i - 1].cid, TRUE) >> ELSE << >>)
         \o ExpectedCalls(bs, vis, i + 1)

IsPrefix(s, r) == Len(s) <= Len(r) /\ s = SubSeq(r, 1, Len(s))

\* The calls of a log that succeeded: all of it, or all but a failed last.
OkCalls(log) ==
    IF log # << >> /\ ~log[Len(log)].ok THEN SubSeq(log, 1, Len(log) - 1) ELSE log

\* C2: the store calls of an insert_batch are insert(b0), insert(b1),
\* unpin(b0), insert(b2), unpin(b1), ... in this order and nothing else, every
\* insert with the builder's visibility: at every moment of the commit the
\* calls issued are a prefix of that sequence, and all of it on success.
C2_CallSequence ==
    \A t \in Tasks :
        op[t] \in CommitOps /\ pc[t] \in {"commit", "done", "fill"} =>
            LET want == ExpectedCalls(blocks[t], builder.visibility, 1)
            IN  /\ IsPrefix(OkCalls(calls[t]), want)
                /\ result[t].ok => calls[t] = want

C2_Witness ==
    /\ Committed(1)
    /\ op[1] = "insert_batch"
    /\ Len(blocks[1]) = MaxBatch
    /\ Len(calls[1]) = 2 * MaxBatch - 1

\* The cids task t's operation has inserted into the store so far.
InsertedCids(t) ==
    { calls[t][i].cid :
        i \in { j \in 1..Len(calls[t]) : calls[t][j].op = "insert" /\ calls[t][j].ok } }

\* Every block after the first links to the block before it.
ChainBatch(bs) ==
    \A i \in 2..Len(bs) : bs[i - 1].cid \in BlockLinks(bs[i].cid, bs[i].data)

\* The store keeps c: it is pinned or reachable from a pinned block.
Protected(c) == c \in Live(store, pins)

\* C3: while a commit of a batch in which every block links to the block
\* before it runs interleaved with the collector, every block of the batch
\* inserted so far is in the store, pinned or reachable from a pinned block.
C3_ChainProtected ==
    op[1] = "insert_batch" /\ pc[1] \in {"commit", "done"} /\ ChainBatch(blocks[1])
        => \A c \in InsertedCids(1) : c \in DOMAIN store /\ Protected(c)

\* C3's case: a chain of MaxBatch blocks is committed, the first blocks are
\* unpinned, and the collector ran during the commit.
C3_Witness ==
    /\ Committed(1)
    /\ op[1] = "insert_batch"
    /\ Len(blocks[1]) = MaxBatch
    /\ ChainBatch(blocks[1])
    /\ gc_ran[1]
    /\ blocks[1][1].cid \notin pins

\* The blocks of a batch as a store of their own.
BatchStore(bs) ==
    [c \in { bs[i].cid : i \in 1..Len(bs) } |->
        [data |-> (CHOOSE b \in { bs[i] : i \in 1..Len(bs) } : b.cid = c).data]]

\* The blocks are distinct, children come before parents, and the last block
\* reaches every earlier block by one or more links.
RelatedBatch(bs) ==
    /\ bs # << >>
    /\ \A i \in 1..Len(bs) : \A j \in 1..Len(bs) : bs[i].cid = bs[j].cid => i = j
    /\ \A i \in 1..Len(bs) : \A j \in i..Len(bs) :
           bs[j].cid \notin BlockLinks(bs[i].cid, bs[i].data)
    /\ LET root == bs[Len(bs)]
           below == BlockLinks(root.cid, root.data) \cap DOMAIN BatchStore(bs)
       IN  \A i \in 1..(Len(bs) - 1) :
               bs[i].cid \in Reach(BatchStore(bs), below, below)

\* C4: while a commit of a batch of related blocks (children before parents,
\* the last block reaching all earlier ones) runs interleaved with the
\* collector, no block inserted so far is removed before the commit returns.
C4_RelatedProtected ==
    op[1] = "insert_batch" /\ pc[1] \in {"commit", "done"} /\ RelatedBatch(blocks[1])
        => \A c \in InsertedCids(1) : c \in DOMAIN store

\* C4, where it fails: a leaf is unpinned and collected before the parent
\* that links to it is inserted.
C4_LeafCollected ==
    /\ op[1] = "insert_batch"
    /\ pc[1] = "commit"
    /\ RelatedBatch(blocks[1])
    /\ ~ChainBatch(blocks[1])
    /\ \E c \in InsertedCids(1) : c \notin DOMAIN store

\* A sequential commit of the blocks of bs from index i on, as a pure
\* function of the store's state s = [store, pins].
RECURSIVE SeqCommit(_, _, _, _)
SeqCommit(s, bs, vis, i) ==
    IF i > Len(bs) THEN s
    ELSE LET ins == [store |-> StoreInsert(s.store, bs[i].cid, bs[i].data, vis),
                     pins |-> s.pins \cup {bs[i].cid}]
             unp == IF i > 1
                    THEN [ins EXCEPT !.pins = @ \ {bs[i - 1].cid}]
                    ELSE ins
         IN  SeqCommit(unp, bs, vis, i + 1)

NoFailedCall(t) == \A i \in 1..Len(calls[t]) : calls[t][i].ok

\* Both tasks have committed a batch of at least one block, the batches
\* share no cid, and no store call failed.
BothCommitted ==
    /\ \A t \in Tasks :
          /\ op[t] = "insert_batch"
          /\ pc[t] = "done"
          /\ blocks[t] # << >>
          /\ NoFailedCall(t)
    /\ BatchCids(1) \cap BatchCids(2) = {}

\* C5: two concurrent commits of independent batches both succeed under
\* every interleaving, each batch ends with exactly its own last block
\* pinned, and the store and the pins are those of the two commits run one
\* after the other.
C5_ConcurrentCommits ==
    BothCommitted =>
        /\ \A t \in Tasks :
              /\ result[t].ok
              /\ pins \cap BatchCids(t) = {LastBlock(t).cid}
        /\ [store |-> store, pins |-> pins]
             = SeqCommit(SeqCommit([store |-> << >>, pins |-> {}],
                                   blocks[1], builder.visibility, 1),
                         blocks[2], builder.visibility, 1)

\* C5, where it fails: two independent batches are committed and one of them
\* holds the same block twice.
C5_RepeatedCid ==
    /\ BothCommitted
    /\ \E t \in Tasks : Len(blocks[t]) = 2 /\ blocks[t][1].cid = blocks[t][2].cid

\* C6: insert_batch on a batch without blocks fails with EmptyBatch and
\* issues no store call.
C6_EmptyBatch ==
    \A t \in Tasks :
        op[t] \in {"insert_batch", "cache_insert_batch"} /\ pc[t] = "done"
          /\ blocks[t] = << >>
            => result[t] = Err("EmptyBatch") /\ calls[t] = << >>

\* C6's case: a commit of an empty batch has returned.
C6_EmptyCommitted ==
    op[1] = "insert_batch" /\ pc[1] = "done" /\ blocks[1] = << >>

\* A store call of task t's commit has failed.
CommitFailed(t) ==
    /\ op[t] \in CommitOps
    /\ pc[t] = "done"
    /\ calls[t] # << >>
    /\ ~calls[t][Len(calls[t])].ok

FailedCall(t) == calls[t][Len(calls[t])]

InStore(b) == b.cid \in DOMAIN store

\* C7: when a store call fails while block i (the block at the iterator's
\* position) is processed, the commit returns the store error, no store call
\* follows the failed one, and nothing is rolled back: the blocks before
\* i-1 are inserted and unpinned, block i-1 is inserted and pinned, block i
\* too if the failed call was the unpin, and no later block is inserted.
C7_FailureState ==
    \A t \in Tasks :
        CommitFailed(t) =>
            LET i == idx[t]
                bs == blocks[t]
            IN  /\ result[t] = Err("StoreError")
                /\ LET want == ExpectedCalls(bs, builder.visibility, 1)
                       n == Len(calls[t])
                   IN  /\ n <= Len(want)
                       /\ calls[t] = SubSeq(want, 1, n - 1)
                                        \o << [want[n] EXCEPT !.ok = FALSE] >>
                /\ \A j \in 1..(i - 2) : InStore(bs[j]) /\ bs[j].cid \notin pins
                /\ i >= 2 => InStore(bs[i - 1]) /\ bs[i - 1].cid \in pins
                /\ FailedCall(t).op = "unpin" => InStore(bs[i]) /\ bs[i].cid \in pins
                /\ \A c \in InsertedCids(t) : \E j \in 1..i : bs[j].cid = c

\* C7's case: a store call failed at the third block of a batch.
C7_FailedAtThird ==
    CommitFailed(1) /\ idx[1] = MaxBatch

\* C8: a successful insert_batch returns the cid of the last block of the
\* batch, which is the cid the last Batch.insert on that batch returned.
C8_ReturnsLastCid ==
    \A t \in Tasks :
        Committed(t) =>
            /\ result[t] = Ok(LastBlock(t).cid)
            /\ result[t].cid = ret[t].cid

\* C8's case: a batch of MaxBatch blocks whose first and last block differ
\* is committed.
C8_Witness ==
    /\ Committed(1)
    /\ op[1] = "insert_batch"
    /\ Len(blocks[1]) = MaxBatch
    /\ blocks[1][1].cid # LastBlock(1).cid

CidSeq(bs) == [i \in 1..Len(bs) |-> bs[i].cid]

\* The cids of the insert calls of a log, in the order of the calls.
InsertSeq(log) == CidSeq(SelectSeq(log, LAMBDA c : c.op = "insert"))

\* Task t's batch grows in this step: a Batch.insert or CacheBatch.insert.
BatchGrows(t) == pc[t] = "build" /\ blocks'[t] # blocks[t]

\* C9: a step of Batch.insert or CacheBatch.insert issues no store call and
\* changes neither the store nor the cache; it appends one block (and, in a
\* typed batch, the pair of that block's cid) behind the earlier ones, which
\* stay as they were; and a commit inserts the blocks in the order they were
\* added.
C9_BatchInsertFrame ==
    [][ \A t \in Tasks :
          /\ BatchGrows(t) =>
                /\ calls' = calls
                /\ store' = store
                /\ pins' = pins
                /\ cache' = cache
                /\ pc'[t] = "build"
                /\ Len(blocks'[t]) = Len(blocks[t]) + 1
                /\ SubSeq(blocks'[t], 1, Len(blocks[t])) = blocks[t]
                /\ ret'[t] = Ok(blocks'[t][Len(blocks'[t])].cid)
                /\ op[t] = "cache_insert_batch" =>
                      /\ Len(pairs'[t]) = Len(pairs[t]) + 1
                      /\ SubSeq(pairs'[t], 1, Len(pairs[t])) = pairs[t]
                      /\ pairs'[t][Len(pairs'[t])].cid = ret'[t].cid
          /\ Committed(t)' => InsertSeq(calls'[t]) = CidSeq(blocks'[t])
      ]_vars

\* C9's case: a typed batch holds two different blocks while the store and
\* the cache hold blocks of an earlier commit.
C9_Witness ==
    /\ pc[1] = "build"
    /\ op[1] = "cache_insert_batch"
    /\ Len(blocks[1]) >= 2
    /\ blocks[1][1].cid # blocks[1][2].cid
    /\ cache # << >>
    /\ pins # {}

\* The block insert(value) of task t builds from its argument.
ArgBlock(t) == BuildBlock(builder.key, arg[t].v, arg[t].nonce)

\* The outcome of committing the one block b: one store insert with the
\* builder's visibility and no unpin, then the block stored and pinned and
\* its cid returned, or the store's error.
SingleCommit(t, b) ==
    \/ /\ calls[t] = << InsertCall(b.cid, builder.visibility, TRUE) >>
       /\ result[t] = Ok(b.cid)
       /\ b.cid \in DOMAIN store
       /\ store[b.cid] = [data |-> b.data, visibility |-> builder.visibility]
       /\ b.cid \in pins
    \/ /\ calls[t] = << InsertCall(b.cid, builder.visibility, FALSE) >>
       /\ result[t] = Err("StoreError")

\* C10: insert(value) of the builder, written as create_batch + insert +
\* insert_batch (builder.rs) or directly (lib.rs), has the outcome of
\* committing a batch of that one value: a CodecError and no store call when
\* the value cannot be encoded, and otherwise what insert_batch does on a
\* batch holding the one block built from the value.
C10_InsertIsSugar ==
    \A t \in Tasks :
        pc[t] = "done" =>
            /\ op[t] \in {"insert", "lib_insert"} =>
                  IF ~ArgBlock(t).ok
                  THEN result[t] = Err("CodecError") /\ calls[t] = << >>
                  ELSE SingleCommit(t, ArgBlock(t).block)
            /\ op[t] = "insert_batch" /\ Len(blocks[t]) = 1 =>
                  SingleCommit(t, blocks[t][1])

\* C10's case: a private builder's insert(value) of lib.rs has returned Ok
\* after an insert(value) of builder.rs.
C10_Witness ==
    /\ builder.visibility = Private
    /\ op[1] = "lib_insert"
    /\ pc[1] = "done"
    /\ result[1].ok
    /\ Cardinality(pins) = 2

\* The values whose insert on this builder has produced the cid c.
InsertedAs(c) ==
    { v \in Values : \E n \in 0..rng :
          LET b == BuildBlock(builder.key, v, n)
          IN  b.ok /\ b.block.cid = c }

\* The store answered task t's get.
GetAnswered(t) ==
    /\ op[t] = "get"
    /\ pc[t] = "done"
    /\ calls[t] = << GetCall(req[t], TRUE) >>

\* C11: a get of a cid that an insert of v on the same builder returned
\* yields v, for a public and for a private builder, whatever else was
\* inserted before or in between.
C11_RoundTrip ==
    \A t \in Tasks :
        GetAnswered(t) =>
            /\ result[t].ok
            /\ got[t].set
            /\ InsertedAs(req[t]) = {got[t].v}

\* C11's case: a private builder reads back the first of two inserted
\* values after the second one was inserted.
C11_Witness ==
    /\ builder.visibility = Private
    /\ GetAnswered(1)
    /\ Cardinality(DOMAIN store) = 2
    /\ prev[1].result.ok
    /\ prev[1].result.cid # req[1]

GetAfterInsert(t) ==
    /\ op[t] = "cache_get"
    /\ prev[t].op = "cache_insert"
    /\ prev[t].result.ok
    /\ req[t] = prev[t].result.cid

\* C13: a cache get that directly follows cache insert(v) and asks for the
\* returned cid is answered by the lookup with v and issues no store call,
\* for every capacity from 1 on and whatever the cache held before.
C13_InsertThenGetHits ==
    \A t \in Tasks :
        GetAfterInsert(t) =>
            /\ pc[t] = "done"
            /\ result[t] = Ok(req[t])
            /\ got[t] = Value(prev[t].v)
            /\ calls[t] = << >>

\* C13's case: with capacity 1 and another block cached before, an insert
\* is followed by a get of its cid.
C13_Witness ==
    /\ size = 1
    /\ GetAfterInsert(1)
    /\ Cardinality(DOMAIN store) = 2

\* The smaller of two numbers.
Min(a, b) == IF a < b THEN a ELSE b

\* C14: the cache holds exactly the `size` most recently used cids, most
\* recent first, where a use is a hit in get or a write by a get miss, insert
\* or insert_batch; so what a new cid pushes out of a full cache is the least
\* recently used entry and nothing else.
C14_EvictsLeastRecent ==
    /\ Len(cache) <= size
    /\ CidSeq(cache) = SubSeq(used, 1, Min(size, Len(used)))

\* C14's case: a cache of capacity 2 was full, a hit in get made the older
\* entry the more recent one, and a new cid pushed the other one out.
C14_Witness ==
    /\ size = 2
    /\ Len(used) = 3
    /\ op[1] = "cache_insert"
    /\ pc[1] = "done"
    /\ result[1].ok
    /\ prev[1].op = "cache_get"
    /\ prev[1].result.ok
    /\ cache[2].cid = prev[1].result.cid

WriteOps == {"cache_insert_batch", "cache_insert"}

\* The cids of ps behind position i, without repetition.
LaterCids(ps, i) == { ps[j].cid : j \in (i + 1)..Len(ps) }

\* The step writes the pairs of task t's batch in batch order: the last pair
\* is the most recent entry, and every pair that later pairs neither rewrite
\* nor push out sits behind the pairs written after it.
FillWritten(t) ==
    LET ps == pairs[t]
        n == Len(ps)
    IN  /\ n >= 1
        /\ [i \in 1..n |-> ps[i].cid] = CidSeq(blocks[t])
        /\ cache' # << >>
        /\ cache'[1] = ps[n]
        /\ ps[n].cid = result[t].cid
        /\ \A i \in 1..n :
              LET k == Cardinality(LaterCids(ps, i))
              IN  ps[i].cid \notin LaterCids(ps, i) /\ k < size =>
                      k < Len(cache') /\ cache'[k + 1] = ps[i]

\* C15: a cache insert or insert_batch changes the cache in one step only,
\* after the builder's commit returned Ok, and that step writes every pair in
\* batch order; a call that fails (encoding, a store call, an empty batch)
\* never changes the cache, and a call that returns Ok leaves the returned
\* cid cached.
C15_CacheAfterCommit ==
    [][ \A t \in Tasks :
          /\ op'[t] \in WriteOps /\ pc[t] # "fill" => cache' = cache
          /\ op[t] \in WriteOps /\ pc[t] = "fill" =>
                result[t].ok /\ FillWritten(t)
          /\ op'[t] \in WriteOps /\ pc'[t] = "done" /\ pc[t] # "done" =>
                IF result'[t].ok
                THEN /\ pc[t] = "fill"
                     /\ cache' # << >>
                     /\ cache'[1].cid = result'[t].cid
                ELSE pc[t] # "fill"
      ]_vars

\* C15's case: a typed batch of two different values is committed into a
\* cache that held another entry, and a later typed commit has failed.
C15_Witness ==
    /\ op[1] = "cache_insert_batch"
    /\ pc[1] = "done"
    /\ ~result[1].ok
    /\ calls[1] # << >>
    /\ Len(cache) = 2
    /\ cache[1].cid # cache[2].cid

\* The cache entry e holds the value that the block addressed by its cid
\* decodes to on this builder.
EntryMatches(e) ==
    /\ e.cid \in DOMAIN store
    /\ DecodeBlock(builder.key, e.cid, store[e.cid].data) =
          [ok |-> TRUE, err |-> "", value |-> e.value]

\* C16: under every interleaving of two tasks' cache get, insert and
\* insert_batch calls, every entry of the cache maps its cid to the value
\* that the block with this cid encodes.
C16_CacheConsistent ==
    \A i \in 1..Len(cache) : EntryMatches(cache[i])

\* A cache get of task t that missed, fetched the block and wrote the cache.
MissedAndPut(t) ==
    /\ op[t] = "cache_get"
    /\ pc[t] = "done"
    /\ calls[t] = << GetCall(req[t], TRUE) >>

\* C16's case: both tasks have missed the same cid concurrently and written
\* it, while the cache holds as many entries as it can.
C16_Witness ==
    /\ \A t \in Tasks : MissedAndPut(t)
    /\ req[1] = req[2]
    /\ Len(cache) = size

\* What get_path(c, q) returns from store st when every get is answered:
\* the block of c is decoded, each segment indexes the current value, and
\* every link found is replaced by the root value of the block it names.
RECURSIVE Resolve(_, _, _, _)
RECURSIVE Descend(_, _, _, _)
Resolve(st, k, c, q) ==
    IF c \notin DOMAIN st
    THEN [ok |-> FALSE, node |-> NoNode]
    ELSE LET d == DecodeIpld(k, c, st[c].data)
         IN  IF d.ok THEN Descend(st, k, d.node, q)
             ELSE [ok |-> FALSE, node |-> NoNode]

Descend(st, k, nd, q) ==
    IF q = << >>
    THEN [ok |-> TRUE, node |-> nd]
    ELSE LET g == IpldGet(nd, Head(q))
         IN  IF ~g.ok THEN [ok |-> FALSE, node |-> NoNode]
             ELSE IF g.node.kind = "link"
                  THEN Resolve(st, k, LinkCid(k, g.node.n), Tail(q))
                  ELSE Descend(st, k, g.node, Tail(q))

\* What indexing by the last segment of the non-empty path p yields, when p
\* is resolved from root r.
UnderLast(st, k, r, p) ==
    LET before == Resolve(st, k, r, SubSeq(p, 1, Len(p) - 1))
    IN  IF before.ok THEN IpldGet(before.node, p[Len(p)])
        ELSE [ok |-> FALSE, node |-> NoNode]

\* Path p resolved from root r ends on a link.
EndsOnLink(st, k, r, p) ==
    UnderLast(st, k, r, p).ok /\ UnderLast(st, k, r, p).node.kind = "link"

\* get_path has returned to task t and the store answered all its gets.
PathAnswered(t) ==
    /\ op[t] = "get_path"
    /\ pc[t] = "done"
    /\ \A j \in 1..Len(calls[t]) : calls[t][j].ok

\* What get_path returned to task t.
PathOutcome(t) ==
    [ok |-> result[t].ok, node |-> IF result[t].ok THEN node[t] ELSE NoNode]

\* The path of the linked-DAG scenario, resolved from the block of value 2.
ScenarioPath == << "root", "0", "child", "a" >>

\* C17: get_path follows every link it reaches, the one under the last
\* segment included: whenever a prefix p of the resolved path ends on a link
\* to cid c, the block of c was fetched, and what get_path(r, p/q) returned
\* is what get_path(c, q) returns; resolving root/0/child/a from the block
\* of value 2 gives the integer 3.
C17_FollowsEveryLink ==
    \A t \in Tasks :
        PathAnswered(t) =>
            /\ \A i \in 1..Len(path[t]) :
                   LET p == SubSeq(path[t], 1, i)
                       q == SubSeq(path[t], i + 1, Len(path[t]))
                       c == LinkCid(builder.key,
                                    UnderLast(store, builder.key, req[t], p).node.n)
                   IN  EndsOnLink(store, builder.key, req[t], p) =>
                           /\ \E j \in 2..Len(calls[t]) : calls[t][j].cid = c
                           /\ PathOutcome(t) = Resolve(store, builder.key, c, q)
            /\ ( /\ path[t] = ScenarioPath
                 /\ req[t] = LinkCid(builder.key, 2)
                 /\ store = DagStore(builder.key, builder.visibility) )
               => PathOutcome(t) = [ok |-> TRUE, node |-> IpldInteger(3)]

\* The scenario has been resolved, and so has a path whose last segment
\* yields a link.
C17_Witness ==
    \E t \in Tasks :
        /\ PathAnswered(t)
        /\ result[t].ok
        /\ path[t] = ScenarioPath
        /\ req[t] = LinkCid(builder.key, 2)
        /\ store = DagStore(builder.key, builder.visibility)
        /\ builder.visibility = Private
        /\ EndsOnLink(store, builder.key, req[t], SubSeq(path[t], 1, 3))

\* The gets get_path has issued for task t so far are within its budget:
\* one for the root and one for each segment already taken.
WithinGets(t) ==
    op[t] = "get_path" =>
        /\ Len(calls[t]) <= idx[t]
        /\ idx[t] <= Len(path[t]) + 1
        /\ Len(calls[t]) <= Len(path[t]) + 1

\* get_path of an empty path has returned to task t.
EmptyPathDone(t) ==
    op[t] = "get_path" /\ pc[t] = "done" /\ path[t] = << >>

\* C18: get_path always terminates, also when the links form a cycle: for
\* a path of k segments it issues at most k+1 store gets, one for the root
\* and at most one for each segment, and for an empty path exactly one,
\* returning the decoded root block.
C18_TerminatesWithinGets ==
    /\ [](\A t \in Tasks :
            /\ WithinGets(t)
            /\ EmptyPathDone(t) =>
                   /\ Len(calls[t]) = 1
                   /\ calls[t][1].cid = req[t]
                   /\ calls[t][1].ok =>
                          LET d == DecodeIpld(builder.key, req[t],
                                              store[req[t]].data)
                          IN  /\ result[t].ok = d.ok
                              /\ d.ok => node[t] = d.node)
    /\ \A t \in Tasks : (pc[t] \in {"root", "link"}) ~> (pc[t] = "done")

\* A path of MaxPath segments has gone round the cycle with one get for the
\* root and one for each segment, and returned.
C18_Witness ==
    \E t \in Tasks :
        /\ op[t] = "get_path"
        /\ pc[t] = "done"
        /\ result[t].ok
        /\ store = LoopStore(builder.key, builder.visibility)
        /\ path[t] = [i \in 1..MaxPath |-> "next"]
        /\ Len(calls[t]) = MaxPath + 1
        /\ \A j \in 1..Len(calls[t]) : calls[t][j].cid = req[t]

\* decrypt has run on the untouched output of encrypt.
OpenedUntouched == crypt.pc = "opened" /\ crypt.where = "none"

\* C19: for every key of at least 16 bytes, every codec tag and every
\* plaintext, the empty one included, encrypt succeeds and decrypt of its
\* output under the same key succeeds and returns exactly the tag and the
\* plaintext.
C19_EncryptRoundTrip ==
    Len(crypt.key) >= MinKeyLen =>
        /\ crypt.pc # "failed"
        /\ OpenedUntouched =>
               crypt.out = [ok |-> TRUE, err |-> "", codec |-> crypt.codec,
                            data |-> crypt.data]

\* The empty plaintext under a two-byte codec tag has made the round trip.
C19_Witness ==
    /\ OpenedUntouched
    /\ Len(crypt.key) >= MinKeyLen
    /\ crypt.data = << >>
    /\ crypt.codec >= 128
    /\ crypt.out.ok

\* decrypt has run, under the right key, on a buffer with one bit flipped.
OpenedTampered ==
    /\ crypt.pc = "opened"
    /\ crypt.where \in {"nonce", "body", "tag"}
    /\ Len(crypt.key) >= MinKeyLen

\* C20: decrypt of an encrypted buffer in which one bit was flipped, in the
\* nonce, in the encrypted segment or in the tag, fails under the right key,
\* and the error is Integrity, not another one.
C20_TamperIsIntegrity ==
    OpenedTampered => ~crypt.out.ok /\ crypt.out.err = "Integrity"

\* A flipped bit was reported as Integrity.
C20_TamperSeen ==
    OpenedTampered /\ crypt.where = "body" /\ crypt.out.err = "Integrity"

\* The bytes the buffer decrypts to under key k.
PlainOf(k, buf) ==
    [i \in 1..(Len(buf) - NonceLen - TagLen) |->
        (buf[NonceLen + i] + 256 - KeyStream(k, buf[1], i)) % 256]

\* The trailing tag of the buffer is the tag of what the buffer decrypts to
\* under key k and the buffer's nonce.
TagVerifies(k, buf) ==
    /\ Len(buf) >= NonceLen + TagLen
    /\ buf[Len(buf)] = Mac(k, buf[1], PlainOf(k, buf))

\* The errors of crypto::Error.
CryptoErrors == {"KeyTooShort", "CipherTooShort", "Codec", "Integrity"}

\* C21: decrypt returns a codec tag and a plaintext only when the tag has
\* verified; on every failing path the result is one of the four errors and
\* carries no plaintext byte; and get never decodes or returns a value from
\* a block whose tag did not verify.
C21_PlaintextOnlyVerified ==
    /\ crypt.pc \in {"opened", "decoded"} =>
           /\ crypt.out.ok => TagVerifies(crypt.key, crypt.buf)
           /\ ~crypt.out.ok =>
                  /\ crypt.out.err \in CryptoErrors
                  /\ crypt.out.data = << >>
                  /\ crypt.out.codec = 0
    /\ crypt.pc = "decoded" =>
           /\ crypt.val.ok => TagVerifies(crypt.key, crypt.buf)
           /\ ~TagVerifies(crypt.key, crypt.buf) =>
                  /\ ~crypt.val.ok
                  /\ crypt.val.err = "CodecError"
                  /\ crypt.val.value = 0

\* get has refused the encoding of a value in which a payload bit was
\* flipped: the tag did not verify although the codec tag was intact.
C21_Witness ==
    /\ crypt.pc = "decoded"
    /\ crypt.where = "body"
    /\ Len(crypt.key) >= MinKeyLen
    /\ crypt.codec = DagCborCode
    /\ Len(crypt.data) = 2
    /\ crypt.data[1] = DagCborCode
    /\ PlainOf(crypt.key, crypt.buf)[2] = DagCborCode
    /\ crypt.out.err = "Integrity"
    /\ ~crypt.val.ok

\* What encrypt and decrypt answer to a key that is too short.
KeyRefused == [ok |-> FALSE, err |-> "KeyTooShort", codec |-> 0, data |-> << >>]

\* C22: with a key of 15 bytes or fewer encrypt fails with KeyTooShort and
\* decrypt fails with KeyTooShort, whatever the plaintext or the buffer is,
\* also when the buffer is shorter than a nonce and a tag: the key is
\* looked at first.
C22_ShortKeyRefused ==
    Len(crypt.key) < MinKeyLen =>
        /\ crypt.pc \notin {"sealed", "tampered"}
        /\ crypt.pc = "failed" => crypt.err = "KeyTooShort" /\ crypt.buf = << >>
        /\ crypt.pc \in {"opened", "decoded"} => crypt.out = KeyRefused

\* decrypt has refused a short key on a buffer that is too short as well.
C22_Witness ==
    /\ Len(crypt.key) < MinKeyLen
    /\ crypt.pc = "opened"
    /\ Len(crypt.buf) < NonceLen + TagLen
    /\ crypt.out.err = "KeyTooShort"

\* decrypt has run under a key of at least 16 bytes on a foreign buffer.
OpenedForeign ==
    /\ crypt.pc = "opened"
    /\ crypt.where = "foreign"
    /\ Len(crypt.key) >= MinKeyLen

EncodedValue(b) == DecodeBlock(builder.key, b.cid, b.data).value

\* Blocks i and j of task t's batch were encoded from the same value.
SameValueTwice(t, i, j) ==
    /\ i < j
    /\ j <= Len(blocks[t])
    /\ EncodedValue(blocks[t][i]) = EncodedValue(blocks[t][j])

\* C24: encode is deterministic, with and without encryption: two blocks
\* that one builder has encoded from the same value are the same block, the
\* same cid and the same bytes.
C24_EncodeDeterministic ==
    \A t \in Tasks : \A i, j \in 1..MaxBatch :
        SameValueTwice(t, i, j) => blocks[t][i] = blocks[t][j]

\* A batch holds two blocks encoded from the same value.
C24_EncodedTwice ==
    \E t \in Tasks : \E i, j \in 1..MaxBatch :
        /\ SameValueTwice(t, i, j)
        /\ blocks[t][i] = blocks[t][j]

\* C25: in every state of the cache, after any gets, inserts and batch
\* inserts, a batch of more blocks than the capacity included, the cache
\* holds at most as many entries as the capacity given at construction, and
\* no cid in more than one entry.
C25_CacheBounded ==
    /\ size \in 1..CacheSize
    /\ Len(cache) <= size
    /\ \A i, j \in 1..Len(cache) : cache[i].cid = cache[j].cid => i = j

\* A batch of more pairs than the capacity has been written into the cache.
C25_Witness ==
    \E t \in Tasks :
        /\ op[t] = "cache_insert_batch"
        /\ pc[t] = "done"
        /\ result[t].ok
        /\ Len(pairs[t]) > size
        /\ Len(cache) = size
        /\ cache[1].cid = pairs[t][Len(pairs[t])].cid

\* The cache's get has returned to task t.
CacheGetDone(t) == op[t] = "cache_get" /\ pc[t] = "done"

\* What the cache's get has left behind when it returned to task t: no
\* store call on a hit; on a miss one store get for the requested cid, and
\* either the decoded value in the cache under that cid and in the caller's
\* hands, or an error.
ReadThrough(t) ==
    \/ /\ calls[t] = << >>
       /\ result[t] = Ok(req[t])
       /\ got[t].set
       /\ CacheHas(cache, req[t])
       /\ cache[1] = [cid |-> req[t], value |-> got[t].v]
    \/ /\ calls[t] = << GetCall(req[t], TRUE) >>
       /\ result[t] = Ok(req[t])
       /\ got[t] = Value(DecodeBlock(builder.key, req[t], store[req[t]].data).value)
       /\ DecodeBlock(builder.key, req[t], store[req[t]].data).ok
       /\ CacheHas(cache, req[t])
       /\ cache[1] = [cid |-> req[t], value |-> got[t].v]
    \/ /\ calls[t] = << GetCall(req[t], TRUE) >>
       /\ ~DecodeBlock(builder.key, req[t], store[req[t]].data).ok
       /\ result[t] = Err(DecodeBlock(builder.key, req[t], store[req[t]].data).err)
       /\ ~got[t].set
    \/ /\ calls[t] = << GetCall(req[t], FALSE) >>
       /\ result[t] = Err("StoreError")
       /\ ~got[t].set

\* Task t has just got the cid it asks for now.
GotJustBefore(t) ==
    prev[t].op = "cache_get" /\ prev[t].result = Ok(req[t])

\* C26: the cache's get is read-through.  A hit issues no store call; a
\* miss issues exactly one store get, for the requested cid; when the get
\* and the decode succeed the decoded value is stored under that cid and
\* returned, so that the next get of that cid is a hit; when the store get
\* or the decode fails the error is returned and the cache is as it was.
C26_ReadThrough ==
    /\ [](\A t \in Tasks :
            /\ CacheGetDone(t) => ReadThrough(t)
            /\ op[t] = "cache_get" /\ GotJustBefore(t) =>
                   pc[t] = "done" /\ calls[t] = << >>)
    /\ [][\A t \in Tasks :
            /\ (op'[t] = "cache_get" /\ nreads' # nreads) =>
                   (CacheHas(cache, req'[t]) <=> pc'[t] = "done")
            /\ (op[t] = "cache_get" /\ pc[t] = "fetch" /\ pc'[t] = "done") =>
                   ~result'[t].ok /\ cache' = cache]_vars

\* A block that does not decode was asked for right after a miss had put
\* another block's value into the cache; the cache still holds just that.
C26_Witness ==
    \E t \in Tasks :
        /\ CacheGetDone(t)
        /\ calls[t] = << GetCall(req[t], TRUE) >>
        /\ ~result[t].ok
        /\ prev[t].op = "cache_get"
        /\ prev[t].result.ok
        /\ Len(cache) = 1
        /\ cache[1].cid = prev[t].result.cid

\* Task t is suspended in a call of the store.
InStoreCall(t) == pc[t] \in {"commit", "fetch", "lib_store", "root", "link"}

\* Every task is outside the cache's operations.
AllReturned == \A t \in Tasks : pc[t] \in {"idle", "done"}

\* C27: the mutex of the cache is never held while a store call is in
\* flight: no task suspended in a store call holds the guard, so a hit of
\* another task goes through whatever the first one waits for, and whenever
\* a cache operation has not returned yet some task can take a step.
C27_NoLockAcrossStoreCall ==
    /\ \A t \in Tasks : InStoreCall(t) => lock # t
    /\ \A t, u \in Tasks :
           (InStoreCall(t) /\ u # t /\ op[u] = "none" /\ CanRead(u)) =>
               \A i \in 1..Len(cache) : ENABLED CacheGet(u, cache[i].cid)
    /\ AllReturned \/ ENABLED NextCacheConc

\* One task is suspended in the store get of a miss, the other has had a
\* hit in the meantime.
C27_Witness ==
    \E t, u \in Tasks :
        /\ op[t] = "cache_get"
        /\ pc[t] = "fetch"
        /\ op[u] = "cache_get"
        /\ pc[u] = "done"
        /\ calls[u] = << >>
        /\ result[u].ok
        /\ req[u] # req[t]

\* What resolving the segments q comes to when every get is answered,
\* standing on value nd with g gets issued and i segments taken: whether it
\* succeeds, the gets issued in all, and the number of the segment that did
\* not apply.
RECURSIVE Walk(_, _, _, _, _, _)
Walk(st, k, nd, q, g, i) ==
    IF q = << >> THEN [ok |-> TRUE, gets |-> g, at |-> i]
    ELSE LET under == IpldGet(nd, Head(q))
         IN  IF ~under.ok THEN [ok |-> FALSE, gets |-> g, at |-> i + 1]
             ELSE IF under.node.kind = "link"
                  THEN LET c == LinkCid(k, under.node.n)
                       IN  Walk(st, k, DecodeIpld(k, c, st[c].data).node,
                                Tail(q), g + 1, i + 1)
                  ELSE Walk(st, k, under.node, Tail(q), g, i + 1)

\* The same for task t's get_path, from the root block on.
WalkOf(t) ==
    Walk(store, builder.key,
         DecodeIpld(builder.key, req[t], store[req[t]].data).node,
         path[t], 1, 0)

\* The ways a segment does not apply to a value: a map without the key, a
\* list without the index, a scalar, a link that was not resolved.
Misfits(nd, seg) ==
    \/ nd.kind = "map" /\ seg \notin DOMAIN nd.kids
    \/ nd.kind = "list" /\ SegIndex(seg) \notin DOMAIN nd.kids
    \/ nd.kind = "int"
    \/ nd.kind = "link"

\* C28: when a segment does not apply to the value get_path stands on (a
\* missing key, an index out of range, a scalar, a link that is the root
\* value of a block), or when a store get fails, get_path returns that
\* error at once: it issues no store get for any later segment, and returns
\* no value.
C28_FailsAtOnce ==
    \A t \in Tasks :
        op[t] = "get_path" =>
            /\ result[t] # NoResult => pc[t] = "done"
            /\ (pc[t] = "done" /\ ~result[t].ok) =>
                   got[t] = NoValue /\ result[t] = Err(result[t].err)
            /\ \A j \in 1..Len(calls[t]) :
                   ~calls[t][j].ok =>
                       /\ j = Len(calls[t])
                       /\ result[t] = Err("StoreError")
            /\ (PathAnswered(t) /\ WalkOf(t).ok) => result[t].ok
            /\ (PathAnswered(t) /\ ~WalkOf(t).ok) =>
                   /\ result[t] = Err("IpldError")
                   /\ Len(calls[t]) = WalkOf(t).gets
                   /\ idx[t] = WalkOf(t).at
                   /\ Misfits(node[t], path[t][idx[t]])

\* get_path followed a link to a block whose root value is a link, failed
\* on the next segment, and left the segments behind it alone.
C28_Witness ==
    \E t \in Tasks :
        /\ PathAnswered(t)
        /\ result[t] = Err("IpldError")
        /\ Len(calls[t]) = 2
        /\ node[t].kind = "link"
        /\ idx[t] < Len(path[t])
        /\ path[t][Len(path[t])] = "a"

=============================================================================
